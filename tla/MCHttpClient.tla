------------------------------ MODULE MCHttpClient ------------------------------
(* Constant values for checking HttpClient with TLC. *)
EXTENDS HttpClient, TLC

(* No or one character, a colon and one more, and the longer ones that     *)
(* have a blank, a second colon or a line end where it matters             *)
Lines ==
  {<<>>} \cup {<<char>> : char \in Char} \cup {<<":", char>> : char \in Char}
    \cup {<<"a", ":", " ", "a", "CR", "LF">>, <<"a", ":", " ", " ", "LF">>,
          <<"a", ":", "a", ":", "LF">>, <<"a", ":", " ", "LF">>}

(* No client and no handle is special. *)
Symmetry == Permutations(Client) \cup Permutations(Handle)
===============================================================================
