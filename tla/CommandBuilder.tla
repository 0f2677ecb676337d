--------------------------- MODULE CommandBuilder ---------------------------
(***************************************************************************)
(* CommandBuilder: from the surroundings of the process to the program,    *)
(* directory, arguments and environment that a child gets                  *)
(* (src/src/cmdbuilder.rs).                                                *)
(*                                                                         *)
(* A path is a sequence of file names, "/" first when it is absolute and   *)
(* "." or ".." first when it is relative to a directory on purpose. A      *)
(* value of the environment is the sequence of paths that split_paths      *)
(* makes of it. An argument is a sequence of characters, and a file name   *)
(* counts as one character. "bad" is a file name that is not Unicode.      *)
(***************************************************************************)
EXTENDS CommandLine

CONSTANTS
  Names,                \* names of environment variables, in any casing
  Lower,                \* a name in lower case; one that is not Unicode as it is
  Scenes,               \* what the program runs in and may call: see Here
  WithExtension(_, _)   \* a file name with its extension replaced

\* A variable's value has at least one path, if only the empty one.
Paths == Seq(Chars)
Setting == [name: Names, value: Seq(Paths) \ {<<>>}]

\* Some names are the code's own. Neither names of variables nor the password
\* database hold a NUL. Only Windows has a registry, where a key has each name
\* once in whatever casing, and its files have no quotes or backslashes in
\* their names.
ASSUME BuilderAssumption ==
  /\ {"/", ".", "..", "bin", "sh", "cmd.exe", ".EXE"} \subseteq Chars
  /\ "SHELL" \in Names /\ "nul" \notin Names /\ Lower \in [Names -> STRING]
  /\ \A s \in DOMAIN Scenes:
       LET here == Scenes[s]
       IN /\ here.platform \in {"unix", "windows"}
          /\ here.vars \in Seq(Setting) /\ here.system \in Seq(Setting) /\ here.user \in Seq(Setting)
          /\ here.passwd \in Seq([shell: Paths, home: Paths])
          /\ \A i \in DOMAIN here.passwd: "nul" \notin ToSet(here.passwd[i].shell)
          /\ here.platform = "unix" => here.system = <<>> /\ here.user = <<>>
          /\ \A i, j \in DOMAIN here.user:
               Lower[here.user[i].name] = Lower[here.user[j].name] => i = j
          /\ here.standard \in Seq(Paths)
          /\ here.pwd \in Paths /\ DOMAIN here.files \subseteq Paths
          /\ here.platform = "windows" =>
               \A file \in DOMAIN here.files: ToSet(file) \cap {"quote", "slash"} = {}
          /\ here.argvs \subseteq Seq(Paths) /\ here.texts \subseteq Paths
          /\ here.settings \subseteq Setting /\ here.removals \subseteq Names
          /\ here.dirs \subseteq Paths /\ here.calls \in Nat

VARIABLES
  scene,     \* which of the Scenes
  args,      \* CommandBuilder.args
  envs,      \* CommandBuilder.envs: map key |-> entry
  cwd,       \* CommandBuilder.cwd as a sequence of at most one path
  options,   \* CommandBuilder.umask and controlling_tty
  edits,     \* the calls that touched the environment so far
  calls,     \* number of calls made on the builder
  command,   \* what as_command, or cmdline and its companions, returned
  outcome,   \* "editing", "converted", "error", "panic", "running", "refused"
  child      \* the process as it starts

vars == <<scene, args, envs, cwd, options, edits, calls, command, outcome, child>>

Nothing == [is |-> "nothing"]

\* Fields: platform, vars, system and user (the variables of the process and
\* of the registry's two keys, in order), passwd (at most one entry with shell
\* and home), standard (the path that execvp and shells use without a PATH),
\* pwd (directory of the process), files (kind of every file, by absolute path),
\* and what may be called: argvs, texts, settings, removals, dirs and the
\* number of calls.
Here == Scenes[scene]
Windows == Here.platform = "windows"

-----------------------------------------------------------------------------
(* Paths and files.                                                        *)

Absolute(path) == path # <<>> /\ path[1] = "/"
Join(base, path) == IF Absolute(path) THEN path ELSE base \o path

\* is_cwd_relative_path.
CwdRelative(path) == path # <<>> /\ path[1] \in {".", ".."}

\* The first of a sequence that passes a test, in a sequence of at most one.
First(s, Test(_)) ==
  LET hits == {i \in DOMAIN s: Test(s[i])} IN IF hits = {} THEN <<>> ELSE <<s[Min(hits)]>>

Utf8(path) == "bad" \notin ToSet(path)

\* The path without the names that lead nowhere.
Clean(path) == FlattenSeq([i \in DOMAIN path |-> IF path[i] = "." THEN <<>> ELSE <<path[i]>>])

\* The file a path names for a process whose directory is dir.
Named(dir, path) == Clean(Join(dir, path))

KindFrom(dir, path) ==
  LET file == Named(dir, path)
  IN IF path # <<>> /\ file \in DOMAIN Here.files THEN Here.files[file] ELSE "none"

Kind(path) == KindFrom(Here.pwd, path)

\* access(X_OK) also succeeds for a directory that may be searched.
Accessible(path) == Kind(path) \in {"program", "dir"}
IsProgram(path) == Kind(path) = "program"
IsDir(path) == Kind(path) = "dir"

-----------------------------------------------------------------------------
(* The map of variables.                                                   *)

\* EnvEntry::map_key: a best effort, for only what is Unicode is folded.
MapKey(name) == IF Windows THEN Lower[name] ELSE name

Has(env, name) == MapKey(name) \in DOMAIN env
Value(env, name) == env[MapKey(name)].value

Entry(name, value, base) == [base |-> base, key |-> name, value |-> value]
Updated(env, key, entry) ==
  [k \in {key} \cup DOMAIN env |-> IF k = key THEN entry ELSE env[k]]

\* Deviation: the map is keyed by the name as it was spelled.
Insert_Spelled(env, name, value, base) == Updated(env, name, Entry(name, value, base))

Insert(env, name, value, base) == Updated(env, MapKey(name), Entry(name, value, base))

Without(env, name) == Restrict(env, DOMAIN env \ {MapKey(name)})

\* The free function get_shell: the password database, else /bin/sh.
PasswdShell ==
  IF Here.passwd # <<>> /\ Utf8(Here.passwd[1].shell) /\ Accessible(Here.passwd[1].shell)
  THEN Here.passwd[1].shell
  ELSE <<"/", "bin", "sh">>

\* One variable x of a source: the process ("vars"), or on Windows only the
\* registry's machine ("system") or user. A later one replaces the one before,
\* but a service's USERNAME is not the user's, and the user's PATH is appended.
Merge(env, x, source) ==
  IF source = "system" /\ Lower[x.name] = "username" THEN env
  ELSE Insert(env, x.name,
              IF source = "user" /\ Lower[x.name] = "path" /\ Has(env, x.name)
              THEN Value(env, x.name) \o x.value ELSE x.value, TRUE)

\* All variables of a source in their order.
Layer(env, source) ==
  LET list == Here[source]
      f[i \in 0..Len(list)] == IF i = 0 THEN env ELSE Merge(f[i - 1], list[i], source)
  IN f[Len(list)]

\* Unix only: SHELL is there unless the process has one.
WithShell(env) ==
  IF Windows \/ Has(env, "SHELL") THEN env
  ELSE Insert(env, "SHELL", <<PasswdShell>>, TRUE)

\* get_base_env.
BaseEnv == Layer(Layer(WithShell(Layer(<< >>, "vars")), "system"), "user")

-----------------------------------------------------------------------------
(* Unix: as_command.                                                       *)

\* The method get_shell: the builder's SHELL when it can be executed.
Shell ==
  IF Has(envs, "SHELL") /\ Utf8(Value(envs, "SHELL")[1])
       /\ Accessible(Value(envs, "SHELL")[1])
  THEN Value(envs, "SHELL")[1]
  ELSE PasswdShell

\* get_home_dir: HOME, the password database, or the root; at most one path,
\* none when the database's is not Unicode.
HomeDir ==
  IF Has(envs, "HOME") /\ Utf8(Value(envs, "HOME")[1]) THEN Value(envs, "HOME")
  ELSE IF Here.passwd = <<>> THEN <<<<"/">>>>
  ELSE First(<<Here.passwd[1].home>>, Utf8)

\* The builder's directory if it is one, else the home.
Dir == IF cwd # <<>> /\ IsDir(cwd[1]) THEN cwd[1] ELSE HomeDir[1]

\* Where search_path looks for exe.
Candidates(exe, dir) ==
  CASE Absolute(exe)                         -> <<exe>>
    [] CwdRelative(exe)                      -> <<Join(dir, exe)>>
    [] OTHER                                 ->
         IF Has(envs, "PATH")
         THEN [i \in DOMAIN Value(envs, "PATH") |->
                 Join(Join(dir, Value(envs, "PATH")[i]), exe)]
         ELSE <<>>

\* Deviation: a directory passes for an executable.
SearchPath_TakesDirs(exe, dir) ==
  First(Candidates(exe, dir), Accessible)

\* search_path: the first candidate that can be executed, if any.
SearchPath(exe, dir) ==
  First(Candidates(exe, dir), IsProgram)

\* A login shell is told by a "-" before its name.
Program ==
  IF args = <<>> THEN <<Shell>> ELSE SearchPath(args[1], Dir)

Argv == IF args = <<>> THEN <<<<"-", Last(Shell)>>>> ELSE args

\* Deviation: SHELL is what get_shell found, whatever the builder says.
FinalEnv_ShellWins ==
  [name \in {"SHELL"} \cup DOMAIN envs |->
     IF name = "SHELL" THEN <<Shell>> ELSE envs[name].value]

\* SHELL is set first, and the builder's variables on top of it.
FinalEnv ==
  [name \in {"SHELL"} \cup DOMAIN envs |->
     IF name \in DOMAIN envs THEN envs[name].value ELSE <<Shell>>]

AsCommand ==
  /\ outcome = "editing" /\ ~Windows
  /\ IF HomeDir = <<>> \/ Program = <<>>
     THEN outcome' = "error" /\ UNCHANGED command
     ELSE /\ outcome' = "converted"
          /\ command' = [program |-> Program[1], argv |-> Argv, dir |-> <<Dir>>,
                         env |-> FinalEnv]
  /\ UNCHANGED <<scene, args, envs, cwd, options, edits, calls, child>>

-----------------------------------------------------------------------------
(* Windows: cmdline, current_directory and environment_block.              *)

Extensions ==
  IF Has(envs, "PATHEXT") THEN Value(envs, "PATHEXT") ELSE <<<<".EXE">>>>

\* What search_path tries in one directory: the name itself, then the name
\* with each extension, which a path that ends in no name does not take. Slicing
\* the "." off an empty extension panics, and so does one that is not Unicode.
Tries(dir, exe) ==
  LET file == Join(dir, exe)
  IN <<[file |-> file, panics |-> FALSE]>> \o
     [i \in DOMAIN Extensions |->
        IF Extensions[i] = <<>> \/ ~Utf8(Extensions[i])
        THEN [file |-> file, panics |-> TRUE]
        ELSE IF file = <<>> \/ Last(file) \in {"/", ".."} THEN [file |-> file, panics |-> FALSE]
        ELSE [file |-> Front(file) \o
                         <<WithExtension(Last(file), Head(Extensions[i]))>>,
              panics |-> FALSE]]

\* search_path: the first try that exists, or panics; exe itself otherwise.
WindowsSearch(exe) ==
  LET dirs == IF Has(envs, "PATH") THEN Value(envs, "PATH") ELSE <<>>
      Ends(t) == t.panics \/ Kind(t.file) # "none"
      hits == First(FlattenSeq([i \in DOMAIN dirs |-> Tries(dirs[i], exe)]), Ends)
  IN IF hits = <<>> THEN [file |-> exe, panics |-> FALSE] ELSE hits[1]

\* The program, and the default one of get_shell.
WindowsProgram ==
  IF args # <<>> THEN WindowsSearch(args[1])
  ELSE [file |-> IF Has(envs, "ComSpec") THEN Value(envs, "ComSpec")[1]
                 ELSE <<"cmd.exe">>,
        panics |-> FALSE]

\* A path as text.
Spelled(path) ==
  LET names == IF Absolute(path) THEN <<<<>>>> \o Tail(path) ELSE path
      Text(i) == IF Absolute(path) /\ i = 1 THEN <<>> ELSE <<path[i]>>
  IN FlattenSeq([i \in DOMAIN names |->
                   (IF i = 1 THEN <<>> ELSE <<"slash">>) \o Text(i)])

\* A value as text.
ValueText(value) ==
  FlattenSeq([i \in DOMAIN value |->
                (IF i = 1 THEN <<>> ELSE <<"sep">>) \o Spelled(value[i])])

\* current_directory: the builder's directory, else the user's profile, else
\* none, which is that of the process.
WindowsDir ==
  LET profile == IF Has(envs, "USERPROFILE")
                 THEN <<Value(envs, "USERPROFILE")[1]>> ELSE <<>>
      dirs == First(cwd \o profile, IsDir)
  IN IF dirs = <<>> THEN <<>> ELSE <<Join(Here.pwd, dirs[1])>>

\* environment_block: every text ends with a NUL, and one more ends the block.
Block ==
  FlattenSeq([i \in DOMAIN SetToSeq(DOMAIN envs) |->
                LET entry == envs[SetToSeq(DOMAIN envs)[i]]
                IN <<entry.key, "=">> \o ValueText(entry.value) \o <<"nul">>]) \o <<"nul">>

\* The arguments as they go into the command line, the program resolved.
LineArgs == <<Spelled(WindowsProgram.file)>> \o SubSeq(args, 2, Len(args))

Cmdline ==
  /\ outcome = "editing" /\ Windows
  /\ outcome' = IF WindowsProgram.panics THEN "panic"
                ELSE IF Refused(args) THEN "error"
                ELSE "converted"
  /\ command' =
       IF outcome' # "converted" THEN command
       ELSE [program |-> WindowsProgram.file,
             line |-> Joined(LineArgs),
             dir |-> WindowsDir, block |-> Block]
  /\ UNCHANGED <<scene, args, envs, cwd, options, edits, calls, child>>

-----------------------------------------------------------------------------
(* The calls on the builder.                                               *)

Init ==
  /\ scene \in DOMAIN Scenes
  /\ args \in Here.argvs
  /\ envs = BaseEnv
  /\ cwd = <<>>
  /\ options = [umask |-> "inherited", controlling |-> TRUE]
  /\ edits = <<>> /\ calls = 0
  /\ command = Nothing /\ outcome = "editing" /\ child = Nothing

Call ==
  /\ outcome = "editing" /\ calls < Here.calls
  /\ calls' = calls + 1
  /\ UNCHANGED <<scene, command, child>>

\* arg: the default program takes none.
Arg ==
  /\ Call
  /\ \E text \in Here.texts:
       IF args = <<>> THEN outcome' = "panic" /\ UNCHANGED args
                      ELSE args' = Append(args, text) /\ UNCHANGED outcome
  /\ UNCHANGED <<envs, cwd, options, edits>>

\* get_argv_mut lets the caller put any vector in place, an empty one too.
GetArgvMut ==
  /\ Call
  /\ args' \in Here.argvs
  /\ UNCHANGED <<envs, cwd, options, edits, outcome>>

Env ==
  /\ Call
  /\ \E s \in Here.settings:
       /\ envs' = Insert(envs, s.name, s.value, FALSE)
       /\ edits' = Append(edits, s)
  /\ UNCHANGED <<args, cwd, options, outcome>>

EnvRemove ==
  /\ Call
  /\ \E name \in Here.removals:
       /\ envs' = Without(envs, name)
       /\ edits' = Append(edits, [name |-> name])
  /\ UNCHANGED <<args, cwd, options, outcome>>

EnvClear ==
  /\ Call
  /\ Here.removals # {}
  /\ envs' = << >>
  /\ edits' = Append(edits, [all |-> TRUE])
  /\ UNCHANGED <<args, cwd, options, outcome>>

\* cwd and clear_cwd.
Cwd ==
  /\ Call
  /\ cwd' \in {<<dir>>: dir \in Here.dirs}
  /\ UNCHANGED <<args, envs, options, edits, outcome>>

ClearCwd ==
  /\ Call
  /\ cwd # <<>> /\ cwd' = <<>>
  /\ UNCHANGED <<args, envs, options, edits, outcome>>

SetControllingTty ==
  /\ Call
  /\ options' \in {[options EXCEPT !.controlling = wanted]: wanted \in BOOLEAN}
  /\ UNCHANGED <<args, envs, cwd, edits, outcome>>

Umask ==
  /\ Call /\ ~Windows
  /\ options' \in {[options EXCEPT !.umask = mask]: mask \in {"inherited", "private"}}
  /\ UNCHANGED <<args, envs, cwd, edits, outcome>>

-----------------------------------------------------------------------------
(* What the operating system makes of the command.                         *)

HasNul(texts) == \E i \in DOMAIN texts: "nul" \in ToSet(texts[i])

\* A program without a slash is looked up by execvp in the child's PATH, and
\* without a PATH on the standard path of the system.
Images(program, env) ==
  IF Len(program) # 1 \/ Absolute(program) THEN <<program>>
  ELSE LET path == IF "PATH" \in DOMAIN env THEN env["PATH"] ELSE Here.standard
       IN [i \in DOMAIN path |-> Join(path[i], program)]

\* The file that execvp executes for a process with this directory and PATH.
Execvp(program, env, dir) ==
  LET Runs(path) == KindFrom(dir, path) = "program"
      image == First(Images(program, env), Runs)
  IN [i \in DOMAIN image |-> Named(dir, image[i])]

\* std::process::Command: the child enters its directory, then executes the
\* program, whose path may be relative to that directory. A NUL is refused.
SpawnUnix ==
  /\ outcome = "converted" /\ ~Windows
  /\ LET dir   == Named(Here.pwd, command.dir[1])
         image == Execvp(command.program, command.env, dir)
     IN IF \/ HasNul(command.argv)
           \/ \E name \in DOMAIN command.env: HasNul(command.env[name])
           \/ ~IsDir(command.dir[1]) \/ image = <<>>
        THEN outcome' = "refused" /\ UNCHANGED child
        ELSE /\ outcome' = "running"
             /\ child' = [image |-> image[1], dir |-> dir, argv |-> command.argv,
                          env |-> {[name |-> n, text |-> ValueText(command.env[n])]:
                                     n \in DOMAIN command.env}]
  /\ UNCHANGED <<scene, args, envs, cwd, options, edits, calls, command>>

\* How an environment block is read: the texts that ended, and the one begun.
NoTexts == [texts |-> {}, text |-> <<>>, ended |-> FALSE]

\* A NUL ends a text, and an empty text ends the block.
ReadBlock(p, char) ==
  IF p.ended THEN p
  ELSE IF char # "nul" THEN [p EXCEPT !.text = Append(p.text, char)]
  ELSE IF p.text = <<>> THEN [p EXCEPT !.ended = TRUE]
  ELSE [p EXCEPT !.texts = p.texts \cup {p.text}, !.text = <<>>]

ReadAll(p, block) ==
  LET f[i \in 0..Len(block)] == IF i = 0 THEN p ELSE ReadBlock(f[i - 1], block[i])
  IN f[Len(block)]

Texts(block) == ReadAll(NoTexts, block).texts

\* CreateProcessW: every text ends at its first NUL, the program is named in
\* full, the directory may be that of the process.
CreateProcess ==
  /\ outcome = "converted" /\ Windows
  /\ IF ~IsProgram(CString(command.program))
     THEN outcome' = "refused" /\ UNCHANGED child
     ELSE /\ outcome' = "running"
          /\ child' = [image |-> Named(Here.pwd, CString(command.program)),
                       dir |-> IF command.dir = <<>> THEN Here.pwd ELSE command.dir[1],
                       argv |-> Parsed(CString(command.line)),
                       env |-> {[name |-> Head(t), text |-> SubSeq(t, 3, Len(t))]:
                                  t \in Texts(command.block)}]
  /\ UNCHANGED <<scene, args, envs, cwd, options, edits, calls, command>>

Next ==
  \/ Arg \/ GetArgvMut \/ Env \/ EnvRemove \/ EnvClear \/ Cwd \/ ClearCwd
  \/ SetControllingTty \/ Umask
  \/ AsCommand \/ SpawnUnix \/ Cmdline \/ CreateProcess

Spec == Init /\ [][Next]_vars

-----------------------------------------------------------------------------
(* What the environment should be, from the sources and the calls.         *)

Same(m, n) == IF Windows THEN Lower[m] = Lower[n] ELSE m = n

\* The value that a source gives a name, as a set: that of the last variable.
In(source, name) ==
  LET at == {i \in DOMAIN source: Same(source[i].name, name)}
  IN {source[i].value: i \in {j \in at: \A k \in at: k <= j}}

\* Each is the value in a set, or empty. get_base_env lets the registry's user
\* variables replace the machine's, and these the process's, all as they were
\* when the builder was made. That is more than environment_block's comment
\* says, whose base is "the current process environment" alone
\* (cmdbuilder.rs:629-632).
SystemValue(name) == IF Lower[name] = "username" THEN {} ELSE In(Here.system, name)

OtherValue(name) ==
  IF SystemValue(name) # {} THEN SystemValue(name) ELSE In(Here.vars, name)

BaseValue(name) ==
  IF In(Here.user, name) = {}
  THEN IF ~Windows /\ name = "SHELL" /\ In(Here.vars, name) = {}
       THEN {<<PasswdShell>>} ELSE OtherValue(name)
  ELSE IF Lower[name] = "path" /\ OtherValue(name) # {}
       THEN {o \o u: o \in OtherValue(name), u \in In(Here.user, name)}
       ELSE In(Here.user, name)

Touching(name) ==
  {i \in DOMAIN edits: "name" \in DOMAIN edits[i] => Same(edits[i].name, name)}

\* The last call that touched the variable decides, else its base value.
Expected(name) ==
  IF Touching(name) = {} THEN BaseValue(name)
  ELSE LET last == edits[Max(Touching(name))]
       IN IF "value" \in DOMAIN last THEN {last.value} ELSE {}

Seen(name) == {x.text: x \in {y \in child.env: Same(y.name, name)}}

NulFree == \A key \in DOMAIN envs: ~HasNul(envs[key].value)

-----------------------------------------------------------------------------
(* Properties.                                                             *)

\* Types of the variables; a name is in the map once, whatever its casing, as
\* far as map_key folds it.
TypeOK ==
  /\ outcome \in {"editing", "converted", "error", "panic", "running", "refused"}
  /\ calls \in 0..Here.calls /\ Len(edits) <= calls
  /\ DOMAIN options = {"umask", "controlling"}
  /\ \A m, n \in DOMAIN envs: Same(envs[m].key, envs[n].key) => m = n
  /\ child # Nothing <=> outcome = "running"

\* get_env answers for every spelling of a name, and iter_extra_env_as_str
\* yields the variables that calls still in force have set.
BuilderAnswers ==
  \A name \in Names:
    /\ {Value(envs, n): n \in {m \in {name}: Has(envs, m)}} = Expected(name)
    /\ (\E key \in DOMAIN envs: ~envs[key].base /\ Same(envs[key].key, name)) <=>
         /\ Touching(name) # {}
         /\ "value" \in DOMAIN edits[Max(Touching(name))]

\* Every spelling of a name answers, in the builder and in the child, with
\* what the last call on it said, and else with the base that the builder was
\* made with (cmdbuilder.rs:208-260, 292-377, 521-530, 633-652). That base is
\* get_base_env's (74-189): the user's, the machine's or the process's value in
\* that order, PATH being joined, and not the process's environment alone as
\* the comment at 629-632 says. One variable is not the caller's to take away:
\* SHELL on Unix. On Windows a NUL in a value cuts it, where Unix refuses: the
\* child's part is stated for values without one.
ChildSeesEnvironment ==
  /\ BuilderAnswers
  /\ child # Nothing /\ NulFree =>
       \A name \in Names:
         Seen(name) =
           IF ~Windows /\ name = "SHELL" /\ Expected(name) = {}
           THEN {ValueText(<<Shell>>)}
           ELSE {ValueText(value): value \in Expected(name)}

\* A name without a "/".
SlashFree(name) == Len(name) = 1 /\ ~Absolute(name) /\ ~CwdRelative(name)

\* A name with a "/" that does not start with "." is looked up in PATH too,
\* unlike a shell does, and a bare name nowhere when PATH is not set. A
\* directory that is relative is entered only by the child, so that a path
\* found relative to it is looked up again from there. "." and ".." are
\* directories, which nobody executes.
LooksUpAsAShell ==
  /\ ~Windows /\ args # <<>> /\ HomeDir # <<>>
  /\ Absolute(Dir) /\ IsDir(Dir)
  /\ \/ SlashFree(args[1]) /\ Has(envs, "PATH")
     \/ CwdRelative(args[1]) \/ Absolute(args[1])
  /\ args[1] \notin {<<".">>, <<"..">>}

\* The parent looks for the program, the child executes what was found. Both
\* together do what a shell in the child's directory, with the child's PATH,
\* would: they run the same file, and fail only if it finds none; a candidate
\* that is a directory or cannot be executed hides no later one
\* (cmdbuilder.rs:414-493). Without a PATH they part from a shell, which goes
\* on to the system's standard path: a bare name is then an error ("Unable to
\* resolve the PATH", 461-463) even when the shell, or execvp itself, would
\* have found it there, and nothing is converted.
RunsWhatAShellRuns ==
  /\ LooksUpAsAShell =>
       LET shell == Execvp(args[1], FinalEnv, Named(Here.pwd, Dir))
       IN /\ outcome = "running" => <<child.image>> = shell
          /\ outcome = "error" => shell = <<>>
          /\ outcome = "refused" => HasNul(args) \/ ~NulFree
  /\ ~Windows /\ args # <<>> /\ outcome \in {"converted", "running", "refused"} =>
       ~SlashFree(args[1]) \/ Has(envs, "PATH")

\* The started program sees the arguments that the caller gave, one by one,
\* whatever quotes, backslashes and blanks they contain (cmdbuilder.rs:697-737).
\* A NUL in the program's name is not refused as it is in an argument and ends
\* the command line there.
RoundTrip ==
  child # Nothing /\ Windows /\ "nul" \notin ToSet(LineArgs[1]) =>
    child.argv = LineArgs
=============================================================================
