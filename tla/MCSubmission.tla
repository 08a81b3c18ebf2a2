---------------------------- MODULE MCSubmission ----------------------------
(***************************************************************************)
(* Eleven bodies around the edges of the checks: ids that differ only in   *)
(* where their digits are divided, a proposer in another spelling, amounts *)
(* around the limit and zero.  Timestamps have two digits, a second of the *)
(* model.                                                                  *)
(***************************************************************************)
EXTENDS Submission, TLC

Node1 == [number |-> 1, spelling |-> "plain"]
Plain == [proposer |-> Node1, seq |-> 4, ts |-> 29, action |-> "ALLOCATE_FUNDS",
          asked |-> 50, valid |-> {1}, invalid |-> {}]

Bodies == {
    Plain,
    [Plain EXCEPT !.seq = 42, !.ts = 9],
    [Plain EXCEPT !.seq = 12],
    [Plain EXCEPT !.proposer.spelling = "other", !.valid = {}],
    [Plain EXCEPT !.proposer.number = 11, !.seq = 2, !.valid = {11}],
    [Plain EXCEPT !.asked = 109, !.ts = 31],
    [Plain EXCEPT !.asked = 119, !.ts = 31, !.valid = {}],
    [Plain EXCEPT !.asked = -9, !.ts = 31, !.invalid = {2}] }
Shortfalls == {[Plain EXCEPT !.asked = a, !.seq = 7] : a \in {-11, -9, 9}}
AllBodies == Bodies \cup Shortfalls
=============================================================================
