---------------------------- MODULE MCNoteImport ----------------------------
\* Note 7 tells of two trades and a fee, and the history of the first of
\* them; note 8 of a trade with the cash of the second, and of another.
EXTENDS NoteImport

AgentSymmetry == Permutations(Agents)

Of(t, n, p, c) == [trade |-> t, note |-> n, print |-> p, net |-> c, row |-> c, fee |-> FALSE]
MCLine ==
  [n71 |-> Of("t1", 7, "p1", "c1"),
   n72 |-> Of("t2", 7, "p2", "c2"),
   f71 |-> [Of("f1", 7, "q1", "d1") EXCEPT !.fee = TRUE],
   n81 |-> Of("t3", 8, "p3", "c2"),
   n82 |-> Of("t4", 8, "p4", "c4"),
   h71 |-> [Of("t1", 7, "p1", "c1") EXCEPT !.row = "s1"]]
MCOld == {"h71"}

Note7 == <<"n71", "f71", "n72">>
Note8 == <<"n81", "n82">>
Sent(files, month) == [files |-> files, month |-> month]
MCUploads ==
  {Sent(<<Note7>>, FALSE), Sent(<<Note7, Note8>>, TRUE), Sent(<<<<"n82">>>>, FALSE)}
=============================================================================
