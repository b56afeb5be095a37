------------------------------- MODULE MCTools -------------------------------
(***************************************************************************)
(* Journals of up to three events in the order of their times, equal times *)
(* included, whole or with the last event cut; one with a clock that went  *)
(* back; and some for the statistics: one name twice, a size that does not *)
(* fit, an event without a name.                                           *)
(***************************************************************************)
EXTENDS Tools

E(i, t) == [id |-> i, time |-> t, name |-> "a", size |-> i, cut |-> FALSE]

Timed == {[i \in DOMAIN ts |-> E(i, ts[i])] :
            ts \in {s \in BoundedSeq({1, 2}, 3) : \A i \in 2..Len(s) : s[i - 1] <= s[i]}}

Cut(j) == [j EXCEPT ![Len(j)].cut = TRUE]

MCJournals ==
  Timed
    \cup {Cut(<<E(1, 1), E(2, 2)>>), Cut(<<E(1, 1)>>)}
    \cup {<<E(1, 2), E(2, 1)>>}
    \cup {<<[E(1, 1) EXCEPT !.name = "b"], [E(2, 1) EXCEPT !.size = 9], E(3, 2)>>,
          <<E(1, 1), [E(2, 2) EXCEPT !.name = "none"]>>}
=============================================================================
