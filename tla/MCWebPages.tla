------------------------------ MODULE MCWebPages ------------------------------
\* A model of WebPages for TLC: the constants that are not numbers.
EXTENDS WebPages

Plain == [source |-> "plain", title |-> "absent", context |-> "absent"]
MCDrafts == {Plain, [Plain EXCEPT !.title = "blank"]}
MCBodies == {[Plain EXCEPT !.title = "plain", !.context = "plain"], [Plain EXCEPT !.context = "plain"]}
MCRows == 1..3
MCReviews == 1..2
MCPageKinds == {"dashboard", "history"}
MCTitled == {1, 3}
===============================================================================
