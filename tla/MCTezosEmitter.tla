---------------------------- MODULE MCTezosEmitter ----------------------------
(* Instances of TezosEmitter: levels with one or two events.                *)
EXTENDS TezosEmitter

TransferLevels == {<<"transfer">>, <<"transfer", "transfer">>}
OneTransfer == {<<"transfer">>}
AllLevels == {<<"transfer">>, <<"update">>, <<"transfer", "update">>}
===============================================================================
