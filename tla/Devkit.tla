------------------------------- MODULE Devkit -------------------------------
(***************************************************************************)
(* devkit, the development tool of the repository (devkit, tooling/*.py):  *)
(* one invocation after another, each configuring and compiling, or        *)
(* formatting and linting, or packaging, in a working tree that keeps what *)
(* the earlier ones left.  The programs it runs (cmake, clang-format, ...) *)
(* are external: each may fail, and Ctrl-C may end an invocation at any    *)
(* step.                                                                   *)
(*                                                                         *)
(* devkit is run from the root of the project, and one at a time.          *)
(***************************************************************************)
CONSTANTS
  Paths,        \* directories and files below the root of the project
  Root,         \* the one entry of settings.PROJECTS
  Parent,       \* the directory of each path
  Sources,      \* the *.cpp and *.hpp files
  CMakeFiles,   \* the *.txt files
  IgnoreFile,   \* per tool, CLANG_FORMAT_IGNORE_FILE and CLANG_TIDY_IGNORE_FILE
  IgnoreDir     \* per tool, CLANG_FORMAT_IGNORE_DIR and CLANG_TIDY_IGNORE_DIR

Tools == {"format", "tidy"}

ASSUME DevkitAssumption ==
  /\ Root \notin Paths
  /\ Parent \in [Paths -> Paths \cup {Root}]
  \* Paths are a tree: a set that has the root, and with a directory all that
  \* is in it, has every path.
  /\ \A S \in SUBSET Paths :
       (\A p \in Paths : Parent[p] \in S \cup {Root} => p \in S) => S = Paths
  /\ Sources \subseteq Paths /\ CMakeFiles \subseteq Paths
  /\ Sources \cap CMakeFiles = {}
  /\ IgnoreFile \in [Tools -> SUBSET Paths]
  /\ IgnoreDir \in [Tools -> SUBSET Paths]

\* The directories a user may name with --build-dir: one that is not there,
\* the build directory, the root of the project, and another.
PackageDirs == {"missing", "build", "root", "other"}

Commands ==
  [name : {"compile", "none"}]
    \cup [name : {"clang"}, format : BOOLEAN, lint : BOOLEAN]
    \cup [name : {"package"}, dir : PackageDirs]

VARIABLES
  pc,           \* where the invocation is, "idle" between two
  command,      \* the command of this, or the last, invocation
  exit,         \* its exit status, "none" while it runs
  installed,    \* whether every program devkit needs is installed
  buildDir,     \* PROJECT_BUILD_DIR: "absent", "broken" or "configured"
  sourceFiles,  \* Clang._source_files
  cmakeFiles,   \* Clang._cmake_files
  touched,      \* the files this invocation formatted
  linted,       \* the files this invocation linted
  packagedIn    \* where checkinstall was run

vars == <<pc, command, exit, installed, buildDir, sourceFiles, cmakeFiles,
          touched, linted, packagedIn>>
clang == <<sourceFiles, cmakeFiles, touched, linted>>

Init ==
  /\ pc = "idle" /\ exit = "none"
  /\ command = [name |-> "none"]
  /\ installed \in BOOLEAN
  /\ buildDir = "absent"
  /\ sourceFiles = {} /\ cmakeFiles = {} /\ touched = {} /\ linted = {}
  /\ packagedIn = "none"

Finish(status) == pc' = "idle" /\ exit' = status

\* What Shell.execute returns for a command that succeeds or fails: sp.run is
\* called with check=False.
Execute(ok) == TRUE

\* A new process: new objects, and the tree as it is.
Invoke(c) ==
  /\ pc = "idle"
  /\ pc' = "preflight" /\ command' = c /\ exit' = "none"
  /\ sourceFiles' = {} /\ cmakeFiles' = {} /\ touched' = {} /\ linted' = {}
  /\ packagedIn' = "none"
  /\ UNCHANGED <<installed, buildDir>>

\* preflight() raises when a program is missing; then main() looks at the
\* command, and prints its help when there is none.
Preflight ==
  /\ pc = "preflight"
  /\ IF ~installed \/ command.name = "none"
       THEN Finish("failure")
       ELSE pc' = command.name /\ UNCHANGED exit
  /\ UNCHANGED <<command, installed, buildDir, clang, packagedIn>>

\* except KeyboardInterrupt.
Interrupt ==
  /\ pc # "idle"
  /\ Finish("failure")
  /\ UNCHANGED <<command, installed, buildDir, clang, packagedIn>>

----------------------------------------------------------------------------
(* devkit compile *)

NeedsConfigure == buildDir = "absent"

\* __init_build.  cmake makes the directory and its cache before it can fail.
Configure(ok) ==
  /\ pc = "compile" /\ NeedsConfigure
  /\ buildDir' = IF ok THEN "configured" ELSE "broken"
  /\ IF Execute(ok) THEN pc' = "make" /\ UNCHANGED exit ELSE Finish("failure")
  /\ UNCHANGED <<command, installed, clang, packagedIn>>

SkipConfigure ==
  /\ pc = "compile" /\ ~NeedsConfigure
  /\ pc' = "make"
  /\ UNCHANGED <<command, exit, installed, buildDir, clang, packagedIn>>

\* __make: cmake --build fails in a directory that was not configured.
Make(ok) ==
  /\ pc = "make"
  /\ ok => buildDir = "configured"
  /\ Finish(IF Execute(ok) THEN "success" ELSE "failure")
  /\ UNCHANGED <<command, installed, buildDir, clang, packagedIn>>

----------------------------------------------------------------------------
(* devkit clang *)

\* Seeded bug: the directory of the file is looked up, and no further.
InIgnoredDirShallow(path, tool) == Parent[path] \in IgnoreDir[tool]

\* _path_in_directory_ignore: up from the path to the root of the project.
InIgnoredDir(path, tool) ==
  LET ignored[p \in Paths \cup {Root}] ==
        /\ p # Root
        /\ \/ p \in IgnoreDir[tool]
           \/ p \in IgnoreDir["format"] \cup IgnoreDir["tidy"]
           \/ ignored[Parent[p]]
  IN  ignored[path]

Ignored(path, tool) == path \in IgnoreFile[tool] \/ InIgnoredDir(path, tool)

\* _aggregate_files: what was collected before stays in the lists.
Aggregate(tool) ==
  /\ sourceFiles' = sourceFiles \cup {f \in Sources : ~Ignored(f, tool)}
  /\ cmakeFiles' = cmakeFiles \cup {f \in CMakeFiles : ~Ignored(f, tool)}

BeginFormat ==
  /\ pc = "clang" /\ command.format
  /\ Aggregate("format")
  /\ pc' = "format"
  /\ UNCHANGED <<command, exit, installed, buildDir, touched, linted, packagedIn>>

\* One file after the other; a formatter that fails changes nothing here.
FormatFile(f) ==
  /\ pc = "format" /\ f \in (sourceFiles \cup cmakeFiles) \ touched
  /\ f \in cmakeFiles => sourceFiles \subseteq touched
  /\ touched' = touched \cup {f}
  /\ UNCHANGED <<pc, command, exit, installed, buildDir, sourceFiles,
                 cmakeFiles, linted, packagedIn>>

AllFormatted == sourceFiles \cup cmakeFiles \subseteq touched

EndFormat ==
  /\ pc = "format" /\ AllFormatted
  /\ IF command.lint THEN pc' = "lint" /\ UNCHANGED exit ELSE Finish("success")
  /\ UNCHANGED <<command, installed, buildDir, clang, packagedIn>>

\* clang without --format.
NoFormat ==
  /\ pc = "clang" /\ ~command.format
  /\ IF command.lint THEN pc' = "lint" /\ UNCHANGED exit ELSE Finish("success")
  /\ UNCHANGED <<command, installed, buildDir, clang, packagedIn>>

\* lint(): one command with all the files.
Lint ==
  /\ pc = "lint"
  /\ Aggregate("tidy")
  /\ linted' = sourceFiles'
  /\ Finish("success")
  /\ UNCHANGED <<command, installed, buildDir, touched, packagedIn>>

----------------------------------------------------------------------------
(* devkit package *)

\* The constructor of Packager raises when the directory is not there, and
\* when the backend is not installed.
RefusePackage ==
  /\ pc = "package"
  /\ Finish("failure")
  /\ UNCHANGED <<command, installed, buildDir, clang, packagedIn>>

Exists(dir) == \/ dir \in {"root", "other"}
               \/ dir = "build" /\ buildDir # "absent"

\* __configure_build_env: a directory called build, or the one in it that is.
Resolved(dir) == IF dir = "root" /\ buildDir # "absent" THEN "build" ELSE dir

\* An invalid directory is logged as an error, and build_pkg goes on in it,
\* whatever becomes of checkinstall.
Package ==
  /\ pc = "package" /\ Exists(command.dir)
  /\ packagedIn' = Resolved(command.dir)
  /\ Finish("success")
  /\ UNCHANGED <<command, installed, buildDir, clang>>

\* Between two invocations the developer may remove the build directory.
RemoveBuild ==
  /\ pc = "idle" /\ buildDir # "absent"
  /\ buildDir' = "absent"
  /\ UNCHANGED <<pc, command, exit, installed, clang, packagedIn>>

Next ==
  \/ \E c \in Commands : Invoke(c)
  \/ Preflight \/ Interrupt
  \/ \E ok \in BOOLEAN : Configure(ok) \/ Make(ok)
  \/ SkipConfigure
  \/ BeginFormat \/ EndFormat \/ NoFormat \/ Lint
  \/ \E f \in Sources \cup CMakeFiles : FormatFile(f)
  \/ RefusePackage \/ Package
  \/ RemoveBuild

Spec == Init /\ [][Next]_vars

----------------------------------------------------------------------------
(* Properties *)

\* A directory and all that is in it, at any depth: the least set that has it,
\* and each path whose directory it has.
Closed(S) == \A p \in Paths : Parent[p] \in S => p \in S
Below(dir) ==
  {p \in Paths : \A S \in SUBSET Paths : dir \in S /\ Closed(S) => p \in S}

\* The files the settings keep from a tool.
Kept(tool) == IgnoreFile[tool] \cup UNION {Below(d) : d \in IgnoreDir[tool]}

\* The tools keep to the lists of the settings.  Formatting reaches every legal
\* file and no other: none that is kept from clang-format, at any depth of an
\* ignored directory, and, if it ends without an error, every other, but what
\* is in an ignored directory of the linter.  Linting alone lints no file that
\* is kept from clang-tidy.
ListsRespected ==
  /\ touched \cap Kept("format") = {}
  /\ exit = "success" /\ command.name = "clang" /\ command.format
       => (Sources \cup CMakeFiles)
            \ (Kept("format") \cup UNION {Below(d) : d \in IgnoreDir["tidy"]})
          \subseteq touched
  /\ command.name = "clang" /\ ~command.format
       => linted \cap Kept("tidy") = {}
============================================================================
