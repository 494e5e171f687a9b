---------------------------- MODULE MCAnyClient -----------------------------
(* Values for checking AnyClient: one server.  Path b has a name whose token *)
(* collides with the token of a name of path a, and a second name with a     *)
(* token of its own.                                                         *)
EXTENDS AnyClient, TLC

CONSTANTS s1, a, b, na, nb, nx, ta, tx, f1, f2, j1, j2

mcFileOf == (na :> a) @@ (nb :> b) @@ (nx :> b)
mcTokenOf == (na :> ta) @@ (nb :> ta) @@ (nx :> tx)
mcBefore == (a :> Exact("old", 2, 2)) @@ (b :> Empty)

mcRequests ==
  {CreateReq(na, 1), CreateReq(nb, 1), CreateReq(nx, 1),
   SetChainReq(ta, <<[srv |-> s1, tok |-> tx]>>),
   SendReq(ta, 0, 1, "src", 2),
   CloseReq(ta, TRUE), CloseReq(ta, FALSE)}

\* For the liveness run: one file, with and without a forwarding target.
mcLiveRequests ==
  {CreateReq(na, 1), SetChainReq(ta, <<[srv |-> s1, tok |-> ta]>>),
   SendReq(ta, 0, 1, "src", 2), CloseReq(ta, TRUE), CloseReq(ta, FALSE)}

mcSymmetry == Permutations({f1, f2}) \cup Permutations({j1, j2})
=============================================================================
