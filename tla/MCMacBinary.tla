---------------------------- MODULE MCMacBinary ----------------------------
(* Headers for MacBinary with forks of every small size, one of them large *)
(* enough for the sum to overflow, and headers that do not match.          *)
EXTENDS MacBinary, ProgressBar, Crc16

(* The lengths that can be decoded whole, the first and last whose block   *)
(* size is the highest bit of the word, and the first without one.         *)
MCLengths == 0 .. 8 \cup {15, 26, 27}

MCMbHeaders ==
  [zeros : {TRUE}, name : {TRUE}, data_fork_len : 0 .. 3, res_fork_len : {0, 1, 2, 15},
   mod_time : {2, 4}]
  \cup {[zeros |-> FALSE, name |-> TRUE, data_fork_len |-> 1, res_fork_len |-> 1,
         mod_time |-> 2],
        [zeros |-> TRUE, name |-> FALSE, data_fork_len |-> 1, res_fork_len |-> 1,
         mod_time |-> 2],
        [zeros |-> TRUE, name |-> TRUE, data_fork_len |-> 1, res_fork_len |-> 1,
         mod_time |-> 1]}
=============================================================================
