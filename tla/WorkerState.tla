---------------------------- MODULE WorkerState ----------------------------
(***************************************************************************)
(* The Worker record of core/src/state/mod.rs and the methods that change  *)
(* it.  A session owns one Worker, mutates it in place, and sends clones   *)
(* of it to the parent process.  Times, the hash rate, the wallet and the  *)
(* protocol tag are left out: no decision of the proxy reads them.         *)
(***************************************************************************)
EXTENDS Naturals

(* A Worker over the names Name; every counter is a Nat (u64 and u128 in   *)
(* the code, incremented by one per message and never near their width).   *)
Worker(Name) ==
  [ worker : Name, online : BOOLEAN,
    total_send_idx : Nat, total_dev_idx : Nat, total_fee_idx : Nat,
    share_index : Nat, accept_index : Nat, invalid_index : Nat,
    fee_share_index : Nat, fee_accept_index : Nat ]

(* Worker::default(), what an accept loop creates for a new connection.    *)
Default(noName) ==
  [ worker |-> noName, online |-> FALSE,
    total_send_idx |-> 0, total_dev_idx |-> 0, total_fee_idx |-> 0,
    share_index |-> 0, accept_index |-> 0, invalid_index |-> 0,
    fee_share_index |-> 0, fee_accept_index |-> 0 ]

(* Worker::login: the name the miner asked for, before the pool answered.  *)
Login(w, name) == [w EXCEPT !.worker = name]

(* Worker::clear_state leaves the job counters and the fee counters alone. *)
ClearState(w) == [w EXCEPT !.share_index = 0, !.accept_index = 0, !.invalid_index = 0]

(* Worker::logind, on the pool's reply to the login.                       *)
Logind(w) == ClearState([w EXCEPT !.online = TRUE])

Offline(w) == [w EXCEPT !.online = FALSE]

SendJob(w)        == [w EXCEPT !.total_send_idx = @ + 1]
SendDevelopJob(w) == [w EXCEPT !.total_dev_idx = @ + 1]
SendFeeJob(w)     == [w EXCEPT !.total_fee_idx = @ + 1]

ShareIndexAdd(w) == [w EXCEPT !.share_index = @ + 1]
ShareAccept(w)   == [w EXCEPT !.accept_index = @ + 1]
ShareReject(w)   == [w EXCEPT !.invalid_index = @ + 1]

FeeShareIndexAdd(w) == [w EXCEPT !.fee_share_index = @ + 1]
FeeShareAccept(w)   == [w EXCEPT !.fee_accept_index = @ + 1]
=============================================================================
