------------------------------ MODULE Protocol ------------------------------
(***************************************************************************)
(* What the fcopy client and the fcopy servers share: the requests they    *)
(* exchange (common/message.h), the error codes, and the forwarding        *)
(* topology the client installs on the servers (set_send_chain and         *)
(* set_send_tree of class FileSender).                                     *)
(*                                                                         *)
(* A target is named by its position in SenderParams::targets, 0..n-1.     *)
(***************************************************************************)
EXTENDS Integers, Sequences

CONSTANTS
  Token,    \* the file tokens of the servers
  NoToken   \* the empty token

(***************************************************************************)
(* Zero is "ok"; the codes the control flow tells apart keep their name,   *)
(* every other failure (an I/O error, a bad chunk size, a broken           *)
(* connection) is "EIO".                                                   *)
(***************************************************************************)
Err == {"ok", "ENOENT", "EEXIST", "ECANCELED", "EIO"}

\* The error of two results of which the first to fail wins.
FirstError(e1, e2) == IF e1 # "ok" THEN e1 ELSE e2

-----------------------------------------------------------------------------
(* The four requests of the protocol. *)

CreateReq(name, size)      == [op |-> "create", name |-> name, size |-> size]
SetChainReq(tok, targets)  == [op |-> "chain", tok |-> tok, targets |-> targets]
SendReq(tok, off, len, src, budget) ==
  [op |-> "send", tok |-> tok, off |-> off, len |-> len, src |-> src,
   budget |-> budget]
CloseReq(tok, wait)        == [op |-> "close", tok |-> tok, wait |-> wait]

-----------------------------------------------------------------------------
(***************************************************************************)
(* Children(m, i, n) are the targets that target i forwards to, in order,  *)
(* when the n targets are arranged by method m: the next one, or the two   *)
(* sons 2i+1 and 2i+2 of a binary heap, as far as they exist.              *)
(***************************************************************************)
FirstChild(m, i) == IF m = "tree" THEN 2*i + 1 ELSE i + 1

\* A plausible bug: the second son of a node is never pushed.
Children_LostSibling(m, i, n) ==
  IF FirstChild(m, i) < n THEN <<FirstChild(m, i)>> ELSE <<>>

Children(m, i, n) ==
  IF m = "tree" /\ 2*i + 2 < n THEN <<2*i + 1, 2*i + 2>>
  ELSE IF FirstChild(m, i) < n THEN <<FirstChild(m, i)>> ELSE <<>>

\* A plausible bug: the hops are counted instead of the targets.
ChainLen_Hops(n) == (n - 1) % 65536

\* The field max_chain_len is 16 bits wide.
ChainLen(n) == n % 65536
=============================================================================
