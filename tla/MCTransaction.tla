---------------------------- MODULE MCTransaction ----------------------------
EXTENDS Transaction

Postgres == [aborts |-> TRUE, swallows |-> FALSE, lingers |-> FALSE]
Sqlite == [aborts |-> FALSE, swallows |-> TRUE, lingers |-> FALSE]

\* Callbacks of Postgres that catch the errors of their calls.
Swallowing == {[Postgres EXCEPT !.swallows = TRUE]}

\* Those, callbacks that write on after commit, and both databases as intended.
AllSettings == {Postgres, Sqlite, [Postgres EXCEPT !.lingers = TRUE]} \cup Swallowing
=============================================================================
