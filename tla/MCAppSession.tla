---------------------------- MODULE MCAppSession ----------------------------
(* Small sessions of the app, for TLC: each budget mixes a few of the       *)
(* environment's doings, the reloads and automatic resumptions are in all.  *)
EXTENDS AppSession

None == [limit \in Limits |-> 0]

AppBudgets ==
    {[None EXCEPT !.start = 1, !.press = 1],
     [None EXCEPT !.settings = 1, !.change = 1],
     [None EXCEPT !.control = 1, !.fault = 1],
     [None EXCEPT !.press = 1, !.due = 1],
     [None EXCEPT !.fault = 2]}

=============================================================================
