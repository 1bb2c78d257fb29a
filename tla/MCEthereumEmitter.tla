-------------------------- MODULE MCEthereumEmitter --------------------------
(* Instances of EthereumEmitter: blocks with one or two logs.               *)
EXTENDS EthereumEmitter

TransferBlocks == {<<"transfer">>, <<"fungible", "transfer">>, <<"transfer", "transfer">>}
MixedBlocks == {<<"transfer">>, <<"series">>, <<"transfer", "series">>}
AllBlocks == {<<"transfer">>, <<"fungible">>, <<"series", "transfer">>, <<"optOut">>}
OptOutBlocks == {<<"optOut">>}
===============================================================================
