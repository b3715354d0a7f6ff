------------------------------ MODULE PidFile ------------------------------
(***************************************************************************)
(* pid/pid.go: the file <container>/container.pid and the question every   *)
(* command asks of it, "is the shell of this container running?".          *)
(*                                                                         *)
(* A pid is the sequence of its decimal digits, because PidCreateByPid     *)
(* opens the file without O_TRUNC and writes the digits from offset 0: the *)
(* tail of a longer stale pid stays behind.  A file is None (absent), <<>> *)
(* (created, nothing written yet) or a sequence of digits.                 *)
(***************************************************************************)
EXTENDS Naturals, Sequences

CONSTANTS
    Pids,   \* the process numbers the kernel hands out
    None    \* no file, no process

Digits == 0..9

\* strconv.Itoa never yields an empty string, and None is no file content.
ASSUME PidsAssumption ==
    /\ Pids \subseteq Seq(Digits) \ {<<>>}
    /\ None \notin Seq(Digits)

Contents == {None} \cup Seq(Digits)

\* The pid_max regime in which all pids have the same number of digits.
SameWidth == \A p, q \in Pids : Len(p) = Len(q)

(* What a file holds after the digits of pid are written over old.         *)
Overlay(old, pid) == pid \o SubSeq(old, Len(pid) + 1, Len(old))

(* PidValue: an absent file cannot be read, an empty one is no number.     *)
PidValueFails(file) == file \in {None, <<>>}

(* PidIsActive on a file: it parses, and signal 0 reaches a process of     *)
(* that number.  A zombie that nobody has waited for still takes signals.  *)
PidIsActive(file, kernel) ==
    /\ ~PidValueFails(file)
    /\ file \in Pids
    /\ kernel[file] # "free"
=============================================================================
