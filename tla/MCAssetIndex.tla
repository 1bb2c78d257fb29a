----------------------------- MODULE MCAssetIndex -----------------------------
(* A small instance of AssetIndex and its queries: a Feral File asset with  *)
(* two tokens that the engine indexes too, and a token one of them is       *)
(* swapped to.                                                              *)
EXTENDS TokenQueries

CONSTANTS alice, bob, x, y, z, ff, gx, gy, u1, u2

MCSource == (ff :> FeralFile) @@ (gx :> "tzkt") @@ (gy :> "tzkt")

MCUpdates ==
  {[asset |-> ff, url |-> u1, tokens |-> <<x, y>>, caller |-> API],
   [asset |-> gx, url |-> u2, tokens |-> <<x>>, caller |-> bob],
   [asset |-> gy, url |-> u1, tokens |-> <<y>>, caller |-> alice]}

MCSwaps == {<<x, z>>, <<z, y>>}
=============================================================================
