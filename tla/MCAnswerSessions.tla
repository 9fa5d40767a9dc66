-------------------------- MODULE MCAnswerSessions -------------------------
(* AnswerSessions with one phone that reconnects, or with two phones.       *)
EXTENDS AnswerSessions, TLC

CONSTANTS s1, s2, p1, p2

OnePhone  == [s \in Sids |-> p1]
TwoPhones == [s \in Sids |-> IF s = s1 THEN p1 ELSE p2]
=============================================================================
