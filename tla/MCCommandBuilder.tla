-------------------------- MODULE MCCommandBuilder --------------------------
(* Six surroundings. "quoting" has every pair of arguments of up to three   *)
(* characters, the others have few arguments and many calls.                *)
EXTENDS CommandBuilder

\* File names count as characters.
MCChars == STRING

MCNames == {"PATH", "Path", "SHELL", "HOME", "USERNAME", "USERPROFILE",
            "ComSpec", "PATHEXT", "X", "x", "Odd", "odd"}

\* "Odd" and "odd" stand for names that are not Unicode.
MCLower == [n \in MCNames |->
              CASE n \in {"PATH", "Path"} -> "path"
                [] n \in {"X", "x"}       -> "x"
                [] n = "SHELL"            -> "shell"
                [] n = "HOME"             -> "home"
                [] n = "USERNAME"         -> "username"
                [] n = "USERPROFILE"      -> "userprofile"
                [] n = "ComSpec"          -> "comspec"
                [] n = "PATHEXT"          -> "pathext"
                [] OTHER                  -> n]

MCWithExtension(name, ext) == (IF name = "run.old" THEN "run" ELSE name) \o ext

MCText(chars, n) == UNION {[1..m -> chars]: m \in 0..n}
MCTexts == MCText({"a", "space", "quote", "slash"}, 3) \cup {<<"a", "nul">>}

V(name, value) == [name |-> name, value |-> value]
P(name) == <<"/", name>>

\* A Unix machine: programs in several directories, one of them hidden behind a
\* directory and a file that cannot be executed, and "run" on the standard path
\* too, where a shell finds it once PATH is removed.
Files ==
  (P("w") :> "dir") @@ (P("h") :> "dir") @@ (P("a") :> "dir") @@ (P("b") :> "dir")
  @@ (<<"/", "w", "s">> :> "dir") @@ (<<"/", "w", "s", "run">> :> "program")
  @@ (<<"/", "w", "s", "s", "run">> :> "program")
  @@ (<<"/", "a", "run">> :> "dir") @@ (<<"/", "b", "run">> :> "program")
  @@ (<<"/", "h", "run">> :> "file") @@ (<<"/", "w", "run">> :> "program")
  @@ (<<"/", "bin", "run">> :> "program")
  @@ (<<"/", "bin", "sh">> :> "program") @@ (<<"/", "bin", "zsh">> :> "program")
  @@ (<<"/">> :> "dir")

Unix == [platform |-> "unix", system |-> <<>>, user |-> <<>>,
         vars |-> <<V("PATH", <<P("a"), <<>>, P("b")>>), V("HOME", <<P("h")>>)>>,
         passwd |-> <<[shell |-> <<"/", "bin", "zsh">>, home |-> P("h")]>>,
         standard |-> <<P("bin"), <<"/", "usr", "bin">>>>, pwd |-> P("w"), files |-> Files,
         argvs |-> {<<>>, <<<<"run">>>>, <<<<".", "run">>>>, <<<<"s", "run">>>>},
         texts |-> {<<"a">>}, dirs |-> {P("w"), <<"s">>, P("b")},
         settings |-> {V("PATH", <<P("h"), P("b")>>), V("SHELL", <<P("a")>>),
                       V("SHELL", <<<<"zsh">>>>), V("HOME", <<<<>>>>),
                       V("X", <<<<"nul">>>>), V("x", <<<<"1">>>>)},
         removals |-> {"PATH", "SHELL", "HOME"}, calls |-> 3]

\* The password database is of no use and the process has a SHELL, and one
\* variable twice.
Bare == [Unix EXCEPT !.passwd = <<[shell |-> <<"/", "bin", "bad">>, home |-> <<"/", "bad">>]>>,
                     !.vars = <<V("X", <<<<"0">>>>), V("SHELL", <<<<"/", "bin", "gone">>>>),
                              V("X", <<<<"1">>>>)>>,
                     !.argvs = {<<>>, <<<<"/", "b", "run">>>>, <<P("a")>>, <<<<>>>>},
                     !.settings = {V("HOME", <<P("h")>>), V("SHELL", <<<<"/", "bin", "sh">>>>)},
                     !.calls = 2]

Rootless == [Bare EXCEPT !.passwd = <<>>]

\* Windows: three sources of variables, with their own casings.
WinFiles ==
  (P("w") :> "dir") @@ (P("h") :> "dir") @@ (P("a") :> "dir") @@ (<<"/", "w", "s">> :> "dir")
  @@ (<<"/", "a", "run.EXE">> :> "program") @@ (<<"/", "b", "run.COM">> :> "program")
  @@ (<<"/", "w", "cmd.exe">> :> "program") @@ (<<"/", "b", "old">> :> "file")

WindowsScene ==
  [platform |-> "windows",
   vars |-> <<V("PATH", <<P("w")>>), V("USERNAME", <<<<"me">>>>), V("X", <<<<"0">>>>),
              V("USERPROFILE", <<P("h")>>)>>,
   system |-> <<V("Path", <<P("a")>>), V("USERNAME", <<<<"system">>>>), V("x", <<<<"1">>>>)>>,
   user |-> <<V("PATH", <<P("b")>>)>>,
   passwd |-> <<>>, standard |-> <<>>, pwd |-> P("w"), files |-> WinFiles,
   argvs |-> {<<>>, <<<<"run">>>>, <<<<"run.old">>>>, <<<<"old">>>>},
   texts |-> {<<"a">>, <<"nul">>}, dirs |-> {P("w"), <<"s">>, P("gone")},
   settings |-> {V("PATH", <<P("b")>>), V("X", <<<<"2">>>>),
                 V("PATHEXT", <<<<".COM">>, <<>>>>), V("x", <<<<"nul">>>>),
                 V("ComSpec", <<<<"/", "a", "run.EXE">>>>)},
   removals |-> {"Path", "x", "USERPROFILE"}, calls |-> 3]

\* No system registry at hand, and a name that map_key does not fold.
Unregistered ==
  [WindowsScene EXCEPT !.system = <<>>, !.vars = <<V("odd", <<<<"0">>>>)>>,
                       !.settings = @ \cup {V("Odd", <<<<"1">>>>)},
                       !.removals = @ \cup {"odd"}, !.calls = 2]

\* File names have no quotes and do not end in a backslash.
MCPrograms == {<<>>, <<"a">>, <<"a", "a">>, <<"a", "space", "a">>, <<"a", "nul", "a">>}

Quoting ==
  [WindowsScene EXCEPT
     !.vars = <<>>, !.system = <<>>, !.user = <<>>,
     !.files = [p \in {P("w") \o x: x \in MCPrograms} |-> "program"],
     !.argvs = {<<p>> \o rest: p \in MCPrograms, rest \in MCText(MCTexts, 2)},
     !.texts = {}, !.dirs = {}, !.settings = {}, !.removals = {}, !.calls = 0]

MCScenes == [unix |-> Unix, bare |-> Bare, rootless |-> Rootless,
             windows |-> WindowsScene, unregistered |-> Unregistered, quoting |-> Quoting]
=============================================================================
