------------------------------ MODULE MCInput ------------------------------
(* For the code view, two items at 0 and 2 that refer to a third at 4,     *)
(* which refers to the inside of the first; for the terminal, keys of all  *)
(* its commands and texts of one line and of two.                          *)
EXTENDS Input, TLC

Targets == (0 :> 4) @@ (2 :> 4) @@ (4 :> 1)

SomeKeys ==
    { "Left", "Right", "Up", "Down", "Home", "End", "Return", "Escape", "Backspace", "Delete",
      "L", "U", "C", "S", "Semicolon" }

Texts == { << <<"L">> >>, << <<"L">>, <<"U">> >> }
=============================================================================
