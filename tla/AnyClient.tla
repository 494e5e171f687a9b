------------------------------ MODULE AnyClient -----------------------------
(***************************************************************************)
(* The servers of module FcopyServer under arbitrary clients: any request  *)
(* of the set Requests may reach any server at any time, a forwarded       *)
(* request may return anything, and a server may be restarted.             *)
(***************************************************************************)
EXTENDS FcopyServer

CONSTANTS
  Requests,    \* the requests that may arrive
  ForwardErr   \* what a forwarded request may return

ASSUME RequestsAssumption == Requests \subseteq Request /\ ForwardErr \subseteq Err

Arrives(j, s, r) == Submit(j, s, r) /\ UNCHANGED <<fmap, fds, disk>>

ForwardSent(j, k) ==
  /\ Forwarding(j, k)
  /\ job' = [job EXCEPT ![j].fwd[k] = "call"]
  /\ UNCHANGED <<fmap, fds, disk>>

ForwardReturns(j, k, e) == Forwarded(j, k, e) /\ UNCHANGED <<fmap, fds, disk>>

Reply(j) ==
  /\ At(j, "reply")
  /\ job' = [job EXCEPT ![j] = AfterReply(j)]
  /\ UNCHANGED <<fmap, fds, disk>>

Crash(s) ==
  /\ Restart(s)
  /\ job' = [j \in Slot |-> IF j \in Lost(s) THEN NoJob ELSE job[j]]

ForwardStep(j) ==
  \E k \in DOMAIN job[j].fwd :
    ForwardSent(j, k) \/ \E e \in ForwardErr : ForwardReturns(j, k, e)

ServerStep(j) ==
  \/ JobStep(j) \/ JobFails(j) \/ SendWriteShort(j)
  \/ (At(j, "work") /\ ForwardStep(j))
  \/ Reply(j)

ServerNext ==
  \/ \E j \in Slot, s \in Server, r \in Requests : Arrives(j, s, r)
  \/ \E j \in Slot : ServerStep(j)
  \/ \E s \in Server : Crash(s)

ServerSpec == ServerInit /\ [][ServerNext]_serverVars

\* Every handler that can go on is resumed, and its forwarded requests return.
ServerFairSpec == ServerSpec /\ \A j \in Slot : WF_serverVars(ServerStep(j))

-----------------------------------------------------------------------------
(* Properties.                                                             *)

\* Every handler ends.
HandlersEnd == \A j \in Slot : ~At(j, "free") ~> At(j, "free")

\* A file whose close was acknowledged before it was done (no wait_close)
\* is taken out of the table.
LateCloseDone ==
  \A j \in Slot, s \in Server, t \in Token :
    (At(j, "reply") /\ IsLateClose(j) /\ job[j].srv = s /\ job[j].req.tok = t)
      ~> fmap[s][t] = NoEntry
=============================================================================
