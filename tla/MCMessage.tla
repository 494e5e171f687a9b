------------------------------ MODULE MCMessage -----------------------------
(* Values for checking Message: one message of each shape, with and without  *)
(* a body, with a list of targets of every length up to 2, with data, and    *)
(* one that exceeds SizeLimit = 15, and one whose lengths, 6 and 5, wrap.    *)
EXTENDS Message

Chunk(n) ==
  [cmd |-> "send", error |-> 0, data |-> [k \in 1..n |-> <<"block", k>>],
   f |-> [max_chain_len |-> 2, compress_type |-> 0, origin_size |-> n, crc32 |-> 7,
          offset |-> 4, file_token |-> "t"]]

Chain(n) ==
  [cmd |-> "chain", error |-> 0, data |-> <<>>,
   f |-> [file_token |-> "t",
          targets |-> [k \in 1..n |-> [host |-> <<"host", k>>, port |-> <<"port", k>>,
                                       file_token |-> <<"token", k>>]]]]

mcMessages ==
  {Chunk(0), Chunk(1), Chunk(3), Chunk(4), Chunk(5), Chain(0), Chain(1), Chain(2),
   [cmd |-> "create", error |-> 0, data |-> <<>>,
    f |-> [chunk_size |-> 2, file_perm |-> 0, file_size |-> 3, partition |-> "p",
           relative_path |-> "r", file_name |-> "n"]],
   [cmd |-> "create_resp", error |-> 17, data |-> <<>>, f |-> [file_token |-> "t"]],
   [cmd |-> "close", error |-> 0, data |-> <<>>,
    f |-> [wait_close |-> 1, file_token |-> "t"]],
   [cmd |-> "resp", error |-> 2, data |-> <<>>, f |-> <<>>]}
=============================================================================
