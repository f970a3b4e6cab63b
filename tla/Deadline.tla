------------------------------ MODULE Deadline ------------------------------
(***************************************************************************)
(* psmq_ms_to_tp (utils.c): the point in time that mq_timedsend and        *)
(* mq_timedreceive are given for a timeout in milliseconds.  The models    *)
(* call a timeout "zero" or "positive" and let the second kind of wait end *)
(* at any moment; what WireProofs proves of MsToTp is why that is right.   *)
(***************************************************************************)
EXTENDS Integers

NsecPerSec == 1000000000
NsecPerMs  == 1000000

\* struct timespec: what the kernel accepts, and the moment it stands for.
Timespecs == [tv_sec : Nat, tv_nsec : {n \in Nat : n < NsecPerSec}]
Moment(tp) == tp.tv_sec * NsecPerSec + tp.tv_nsec

\* A wait of 0 ms is until 1970, any other from `now' on, with the nanoseconds carried over.
MsToTp(ms, now) ==
  LET sec  == now.tv_sec + ms \div 1000
      nsec == now.tv_nsec + (ms % 1000) * NsecPerMs
  IN  IF ms = 0 THEN [tv_sec |-> 0, tv_nsec |-> 0]
      ELSE IF nsec >= NsecPerSec THEN [tv_sec |-> sec + 1, tv_nsec |-> nsec - NsecPerSec]
      ELSE [tv_sec |-> sec, tv_nsec |-> nsec]
=============================================================================
