------------------------------- MODULE MCDialogs -------------------------------
(***************************************************************************)
(* Instance of Dialogs: menus and lists of one to six items, some with the *)
(* letters of commands, in windows of three rows; a field of three columns *)
(* for texts of up to four characters; files of up to nine bytes read      *)
(* through a buffer of four and shown in two rows.                         *)
(***************************************************************************)
EXTENDS Dialogs

MCMenus == {<<"a">>, <<"a", "b">>, <<"a", "b", "a">>, <<"b", "a", "s", "b">>,
            <<"a", "b", "c", "a", "h">>, <<"a", "a", "b", "c", "x", "b">>}

MCMarks == {{}, {0}, {1}, {2}, {3}, {5}}

MCValues == {<<>>, <<"b">>, <<"a", "b", "a">>, <<"b", "b", "a", "b">>}

MCFiles == [1..6 -> {"n", "x"}] \cup
  {<<>>, <<"x">>, <<"n">>, <<"x", "n", "x", "x", "x", "x", "x", "n", "x">>,
   <<"n", "n", "n", "n", "n", "n", "n", "n", "n">>,
   <<"x", "x", "n", "x", "n", "n", "x", "x", "n">>}

MCSessions == {{"menu"}, {"list"}, {"input"}, {"text"}, {"ask"}}
=============================================================================
