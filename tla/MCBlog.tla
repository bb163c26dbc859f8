------------------------------- MODULE MCBlog -------------------------------
(* Instances of BlogHistory for TLC. *)
EXTENDS BlogHistory, TLC

\* A title, one that is the second candidate of its slug and one without any
\* letter or digit.
MCSlugify == [t \in Titles |->
                CASE t = "Foo" -> <<"foo", <<>>>>
                  [] t = "Foo 2" -> <<"foo", <<2>>>>
                  [] t = "???" -> <<"", <<>>>>]

Symmetry == Permutations(Reqs) \cup Permutations(UserIds)
=============================================================================
