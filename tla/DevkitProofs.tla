---------------------------- MODULE DevkitProofs ----------------------------
(***************************************************************************)
(* That devkit respects the lists of its settings, for any tree, any files *)
(* and any lists.                                                          *)
(*                                                                         *)
(* The code goes up from a path and looks for an ignored directory; the    *)
(* property speaks of all that lies below one.  That these are the same is *)
(* the first half.  The second follows one invocation: what it has         *)
(* collected, formatted and linted at each point.                          *)
(***************************************************************************)
EXTENDS Devkit, TLAPS

----------------------------------------------------------------------------
(* The tree *)

\* What a directory and its content are: the least closed set with it.
LEMMA BelowIs ==
  ASSUME NEW dir \in Paths
  PROVE  /\ Below(dir) \subseteq Paths /\ dir \in Below(dir) /\ Closed(Below(dir))
         /\ \A p \in Below(dir) : p = dir \/ Parent[p] \in Below(dir)
<1>1. Below(dir) \subseteq Paths /\ dir \in Below(dir)
  BY DEF Below
<1>2. Closed(Below(dir))
  <2>1. SUFFICES ASSUME NEW p \in Paths, Parent[p] \in Below(dir),
                        NEW S \in SUBSET Paths, dir \in S, Closed(S)
                 PROVE  p \in S
    BY DEF Closed, Below
  <2>2. Parent[p] \in S
    BY <2>1 DEF Below
  <2>3. QED
    BY <2>1, <2>2 DEF Closed
<1>3. ASSUME NEW p \in Below(dir), p # dir, Parent[p] \notin Below(dir)
      PROVE  FALSE
  <2> DEFINE S == Below(dir) \ {p}
  <2>1. S \in SUBSET Paths /\ dir \in S
    BY <1>1, <1>3
  <2>2. Closed(S)
    <3>1. SUFFICES ASSUME NEW c \in Paths, Parent[c] \in S PROVE c \in S
      BY DEF Closed
    <3>2. c \in Below(dir)
      BY <1>2, <3>1 DEF Closed
    <3>3. c # p
      BY <1>3, <3>1
    <3>4. QED
      BY <3>2, <3>3
  <2> HIDE DEF S
  <2>3. p \in S
    BY <1>3, <2>1, <2>2 DEF Below
  <2>4. QED
    BY <2>3 DEF S
<1>4. QED
  BY <1>1, <1>2, <1>3

\* Induction along the tree, with a set for the predicate.
LEMMA DownTheTree ==
  ASSUME NEW S, S \subseteq Paths,
         \A p \in Paths : Parent[p] \in S \cup {Root} => p \in S
  PROVE  S = Paths
BY DevkitAssumption

\* What is ignored for a tool, by going up from a path.
Dirs == IgnoreDir["format"] \cup IgnoreDir["tidy"]
LooksUp(f, tool) ==
  f = [p \in Paths \cup {Root} |->
         /\ p # Root
         /\ p \in IgnoreDir[tool] \/ p \in Dirs \/ f[Parent[p]]]

\* What is in an ignored directory of either tool.
InDirs == [p \in Paths \cup {Root} |-> \E d \in Dirs : p \in Below(d)]

LEMMA DirsArePaths == Dirs \subseteq Paths /\ Root \notin Paths
BY DevkitAssumption DEF Dirs, Tools

\* The recursion has this solution,
LEMMA InDirsLooksUp == ASSUME NEW tool \in Tools PROVE LooksUp(InDirs, tool)
<1> DEFINE up(p) == /\ p # Root
                    /\ p \in IgnoreDir[tool] \/ p \in Dirs \/ InDirs[Parent[p]]
<1>1. ASSUME NEW p \in Paths \cup {Root}
      PROVE  (\E d \in Dirs : p \in Below(d)) = up(p)
  <2>1. CASE p = Root
    BY <2>1, DirsArePaths, BelowIs
  <2>2. CASE p # Root
    <3>1. p \in Paths /\ Parent[p] \in Paths \cup {Root}
      BY <2>2, DevkitAssumption
    <3>2. InDirs[Parent[p]] = (\E d \in Dirs : Parent[p] \in Below(d))
      BY <3>1 DEF InDirs
    <3>3. IgnoreDir[tool] \subseteq Dirs
      BY DEF Dirs, Tools
    <3>4. \A d \in Dirs : /\ d \in Below(d)
                          /\ Parent[p] \in Below(d) => p \in Below(d)
                          /\ p \in Below(d) => p = d \/ Parent[p] \in Below(d)
      BY <3>1, DirsArePaths, BelowIs DEF Closed
    <3>5. ASSUME \E d \in Dirs : p \in Below(d) PROVE up(p)
      BY <2>2, <3>2, <3>4, <3>5
    <3>6. ASSUME up(p) PROVE \E d \in Dirs : p \in Below(d)
      BY <3>2, <3>3, <3>4, <3>6
    <3>7. QED
      BY <3>5, <3>6
  <2>3. QED
    BY <2>1, <2>2
<1>2. InDirs = [p \in Paths \cup {Root} |-> up(p)]
  BY <1>1 DEF InDirs
<1>3. QED
  BY <1>2 DEF LooksUp

\* and no other.
LEMMA LooksUpOnce ==
  ASSUME NEW tool \in Tools, NEW f, LooksUp(f, tool)
  PROVE  f = InDirs
<1> DEFINE S == {p \in Paths : f[p] = InDirs[p]}
<1>1. LooksUp(InDirs, tool)
  BY InDirsLooksUp
<1>2. f[Root] = InDirs[Root]
  BY <1>1 DEF LooksUp
<1>3. ASSUME NEW p \in Paths, Parent[p] \in S \cup {Root} PROVE p \in S
  <2>1. f[Parent[p]] = InDirs[Parent[p]]
    BY <1>2, <1>3
  <2>2. f[p] = (/\ p # Root
                /\ p \in IgnoreDir[tool] \/ p \in Dirs \/ f[Parent[p]])
    BY DEF LooksUp
  <2>3. InDirs[p] = (/\ p # Root
                     /\ p \in IgnoreDir[tool] \/ p \in Dirs \/ InDirs[Parent[p]])
    BY <1>1 DEF LooksUp
  <2>4. f[p] = InDirs[p]
    BY <2>1, <2>2, <2>3
  <2>5. QED
    BY <2>4
<1>4. S \subseteq Paths
  OBVIOUS
<1> HIDE DEF S
<1>5. S = Paths
  BY <1>3, <1>4, DownTheTree
<1>6. \A p \in Paths \cup {Root} : f[p] = InDirs[p]
  BY <1>2, <1>5 DEF S
<1>7. /\ f = [p \in Paths \cup {Root} |-> f[p]]
      /\ InDirs = [p \in Paths \cup {Root} |-> InDirs[p]]
  BY <1>1 DEF LooksUp
<1>8. QED
  BY <1>6, <1>7

\* Going up from a path finds an ignored directory exactly when it is below one.
LEMMA InIgnoredDirIs ==
  ASSUME NEW p \in Paths, NEW tool \in Tools
  PROVE  InIgnoredDir(p, tool) <=> \E d \in Dirs : p \in Below(d)
<1> DEFINE f == CHOOSE g : LooksUp(g, tool)
<1>1. LooksUp(f, tool)
  BY InDirsLooksUp
<1>2. InIgnoredDir(p, tool) = f[p]
  BY DEF InIgnoredDir, LooksUp, Dirs
<1> HIDE DEF f
<1>3. f = InDirs
  BY <1>1, LooksUpOnce
<1>4. QED
  BY <1>2, <1>3 DEF InDirs

\* The files that _aggregate_files collects for a tool.
Legal(tool) == {f \in Sources \cup CMakeFiles : ~Ignored(f, tool)}

\* They are those that are in no list.
LEMMA LegalIs ==
  /\ Legal("format") \cap Kept("format") = {}
  /\ (Sources \cup CMakeFiles)
       \ (Kept("format") \cup UNION {Below(d) : d \in IgnoreDir["tidy"]})
     \subseteq Legal("format")
  /\ Legal("tidy") \cap Kept("tidy") = {}
<1>1. ASSUME NEW f \in Sources \cup CMakeFiles, NEW tool \in Tools
      PROVE  f \in Legal(tool) <=>
               f \notin IgnoreFile[tool] /\ \A d \in Dirs : f \notin Below(d)
  <2>1. f \in Paths
    BY DevkitAssumption
  <2>2. QED
    BY <2>1, InIgnoredDirIs DEF Legal, Ignored
<1>2. \A tool \in Tools : Legal(tool) \subseteq Sources \cup CMakeFiles
  BY DEF Legal
<1>3. "format" \in Tools /\ "tidy" \in Tools
  BY DEF Tools
<1>4. \A f : f \in UNION {Below(d) : d \in IgnoreDir["format"]}
               <=> \E d \in IgnoreDir["format"] : f \in Below(d)
  OBVIOUS
<1>5. \A f : f \in UNION {Below(d) : d \in IgnoreDir["tidy"]}
               <=> \E d \in IgnoreDir["tidy"] : f \in Below(d)
  OBVIOUS
<1>6. \A tool \in Tools : Legal(tool) \cap Kept(tool) = {}
  <2>1. SUFFICES ASSUME NEW tool \in Tools, NEW f \in Legal(tool), f \in Kept(tool)
                 PROVE  FALSE
    OBVIOUS
  <2>2. f \in IgnoreFile[tool] \/ \E d \in IgnoreDir[tool] : f \in Below(d)
    BY <2>1 DEF Kept
  <2>3. IgnoreDir[tool] \subseteq Dirs
    BY DEF Dirs, Tools
  <2>4. QED
    BY <1>1, <1>2, <2>1, <2>2, <2>3
<1>7. (Sources \cup CMakeFiles)
        \ (Kept("format") \cup UNION {Below(d) : d \in IgnoreDir["tidy"]})
      \subseteq Legal("format")
  BY <1>1, <1>3, <1>4, <1>5 DEF Kept, Dirs
<1>8. QED
  BY <1>3, <1>6, <1>7

----------------------------------------------------------------------------
(* The invariant *)

Places == {"idle", "preflight", "compile", "make", "clang", "format", "lint",
           "package"}

Formats == command.name = "clang" /\ command.format
LintsOnly == command.name = "clang" /\ ~command.format

\* Each command keeps to its own steps, and has no status until it ends.
StepsOK ==
  /\ pc \in Places /\ command \in Commands
  /\ pc # "idle" => exit = "none"
  /\ pc \in {"compile", "make"} => command.name = "compile"
  /\ pc \in {"clang", "format", "lint"} => command.name = "clang"
  /\ pc = "format" => command.format
  /\ pc = "package" => command.name = "package"

\* What the lists of files have; they are as new until something collects.
CollectedOK ==
  /\ pc \in {"preflight", "clang"} => sourceFiles = {} /\ cmakeFiles = {}
  /\ pc = "format" => sourceFiles \cup cmakeFiles = Legal("format")
  /\ pc = "lint" /\ LintsOnly => sourceFiles = {}

\* Formatting, once it is over, has reached what it was to reach.
FormattedOK ==
  /\ touched \subseteq Legal("format")
  /\ Formats /\ (pc = "lint" \/ exit = "success") => Legal("format") \subseteq touched

LintedOK == LintsOnly => linted \subseteq Legal("tidy")

Inv == StepsOK /\ CollectedOK /\ FormattedOK /\ LintedOK

LEMMA CommandsAre ==
  ASSUME NEW c \in Commands
  PROVE  c.name \in {"compile", "clang", "package", "none"}
BY DEF Commands

LEMMA InitInv == Init => Inv
<1>1. SUFFICES ASSUME Init PROVE Inv
  OBVIOUS
<1>2. command \in Commands /\ command.name = "none"
  BY <1>1 DEF Init, Commands
<1>3. QED
  BY <1>1, <1>2 DEF Init, Inv, StepsOK, CollectedOK, FormattedOK, LintedOK, Formats,
                    LintsOnly, Places

\* An invocation begins.
LEMMA InvokeInv == ASSUME Inv, NEW c \in Commands, Invoke(c) PROVE Inv'
BY DEF Invoke, clang, Inv, StepsOK, CollectedOK, FormattedOK, LintedOK,
       Formats, LintsOnly, Places

LEMMA PreflightInv == ASSUME Inv, Preflight PROVE Inv'
<1>1. command.name \in {"compile", "clang", "package", "none"}
  BY CommandsAre DEF Inv, StepsOK
<1>2. UNCHANGED <<command, clang>> /\ pc = "preflight" /\ exit = "none"
  BY DEF Preflight, Inv, StepsOK
<1>3. CASE pc' = "idle" /\ exit' = "failure"
  BY <1>2, <1>3 DEF clang, Inv, StepsOK, CollectedOK, FormattedOK, LintedOK,
                    Formats, LintsOnly, Places
<1>4. CASE pc' = command.name /\ command.name # "none" /\ UNCHANGED exit
  BY <1>1, <1>2, <1>4 DEF clang, Inv, StepsOK, CollectedOK, FormattedOK, LintedOK,
                          Formats, LintsOnly, Places
<1>5. QED
  BY <1>3, <1>4 DEF Preflight, Finish

\* A step that leaves the files alone, and ends without success.
LEMMA FailsInv ==
  ASSUME Inv, pc' = "idle", exit' = "failure", UNCHANGED <<command, clang>>
  PROVE  Inv'
BY DEF clang, Inv, StepsOK, CollectedOK, FormattedOK, LintedOK, Formats, LintsOnly,
       Places

\* The steps of compile and package have nothing to do with the files.
LEMMA OthersInv ==
  ASSUME Inv, pc \in {"compile", "make", "package"},
         UNCHANGED <<command, clang>>,
         \/ pc' = "idle"
         \/ pc = "compile" /\ pc' = "make" /\ UNCHANGED exit
  PROVE  Inv'
<1>1. command.name \in {"compile", "package"}
  BY DEF Inv, StepsOK
<1>2. StepsOK'
  BY DEF Inv, StepsOK, Places
<1>3. CollectedOK'
  BY DEF Inv, StepsOK, CollectedOK, clang
<1>4. FormattedOK' /\ LintedOK'
  BY <1>1 DEF Inv, FormattedOK, LintedOK, Formats, LintsOnly, clang
<1>5. QED
  BY <1>2, <1>3, <1>4 DEF Inv

LEMMA CompileInv ==
  ASSUME Inv, NEW ok \in BOOLEAN, Configure(ok) \/ Make(ok) \/ SkipConfigure
  PROVE  Inv'
<1>1. /\ pc \in {"compile", "make"} /\ UNCHANGED <<command, clang>>
      /\ \/ pc' = "idle"
         \/ pc = "compile" /\ pc' = "make" /\ UNCHANGED exit
  BY DEF Configure, Make, SkipConfigure, Finish, Execute
<1>2. QED
  BY <1>1, OthersInv

LEMMA PackageInv == ASSUME Inv, RefusePackage \/ Package PROVE Inv'
BY OthersInv DEF RefusePackage, Package, Finish

LEMMA BeginFormatInv == ASSUME Inv, BeginFormat PROVE Inv'
<1>1. /\ pc = "clang" /\ command.name = "clang" /\ command.format
      /\ sourceFiles = {} /\ cmakeFiles = {} /\ exit = "none"
  BY DEF BeginFormat, Inv, StepsOK, CollectedOK
<1>2. pc' = "format" /\ UNCHANGED <<command, exit, touched, linted>>
  BY DEF BeginFormat
<1>3. sourceFiles' \cup cmakeFiles' = Legal("format")
  BY <1>1 DEF BeginFormat, Aggregate, Legal
<1>4. QED
  BY <1>1, <1>2, <1>3 DEF Inv, StepsOK, CollectedOK, FormattedOK, LintedOK, Formats,
                          LintsOnly, Places

LEMMA FormatFileInv ==
  ASSUME Inv, NEW f \in Sources \cup CMakeFiles, FormatFile(f)
  PROVE  Inv'
<1>1. /\ pc = "format" /\ exit = "none" /\ f \in Legal("format")
      /\ touched' = touched \cup {f}
      /\ UNCHANGED <<pc, command, exit, sourceFiles, cmakeFiles, linted>>
  BY DEF FormatFile, Inv, StepsOK, CollectedOK
<1>2. QED
  BY <1>1 DEF Inv, StepsOK, CollectedOK, FormattedOK, LintedOK, Formats, LintsOnly

\* Formatting ends, with all it has collected, which is all that is legal.
LEMMA EndFormatInv == ASSUME Inv, EndFormat PROVE Inv'
<1>1. /\ pc = "format" /\ command.name = "clang" /\ command.format /\ exit = "none"
      /\ Legal("format") \subseteq touched /\ UNCHANGED <<command, clang>>
      /\ \/ pc' = "lint" /\ UNCHANGED exit
         \/ pc' = "idle"
  BY DEF EndFormat, AllFormatted, Finish, Inv, StepsOK, CollectedOK
<1>2. QED
  BY <1>1 DEF clang, Inv, StepsOK, CollectedOK, FormattedOK, LintedOK, Formats,
              LintsOnly, Places

LEMMA NoFormatInv == ASSUME Inv, NoFormat PROVE Inv'
<1>1. /\ pc = "clang" /\ command.name = "clang" /\ ~command.format /\ exit = "none"
      /\ sourceFiles = {} /\ UNCHANGED <<command, clang>>
      /\ \/ pc' = "lint" /\ UNCHANGED exit
         \/ pc' = "idle"
  BY DEF NoFormat, Finish, Inv, StepsOK, CollectedOK
<1>2. QED
  BY <1>1 DEF clang, Inv, StepsOK, CollectedOK, FormattedOK, LintedOK, Formats,
              LintsOnly, Places

\* Linting takes what is in the list: after formatting also what that put there.
LEMMA LintInv == ASSUME Inv, Lint PROVE Inv'
<1>1. /\ pc = "lint" /\ command.name = "clang" /\ UNCHANGED <<command, touched>>
      /\ pc' = "idle" /\ linted' = sourceFiles'
  BY DEF Lint, Finish, Inv, StepsOK
<1>2. LintsOnly => linted' \subseteq Legal("tidy")
  BY <1>1 DEF Lint, Aggregate, Legal, Inv, CollectedOK
<1>3. QED
  BY <1>1, <1>2 DEF Inv, StepsOK, CollectedOK, FormattedOK, LintedOK, Formats,
                    LintsOnly, Places

LEMMA NextInv == Inv /\ [Next]_vars => Inv'
<1>1. SUFFICES ASSUME Inv, [Next]_vars PROVE Inv'
  OBVIOUS
<1>2. CASE \E c \in Commands : Invoke(c)
  BY <1>1, <1>2, InvokeInv
<1>3. CASE Preflight
  BY <1>1, <1>3, PreflightInv
<1>4. CASE Interrupt
  BY <1>1, <1>4, FailsInv DEF Interrupt, Finish
<1>5. CASE \E ok \in BOOLEAN : Configure(ok) \/ Make(ok)
  BY <1>1, <1>5, CompileInv
<1>6. CASE SkipConfigure
  BY <1>1, <1>6, CompileInv
<1>7. CASE BeginFormat
  BY <1>1, <1>7, BeginFormatInv
<1>8. CASE EndFormat
  BY <1>1, <1>8, EndFormatInv
<1>9. CASE NoFormat
  BY <1>1, <1>9, NoFormatInv
<1>10. CASE Lint
  BY <1>1, <1>10, LintInv
<1>11. CASE \E f \in Sources \cup CMakeFiles : FormatFile(f)
  BY <1>1, <1>11, FormatFileInv
<1>12. CASE RefusePackage \/ Package
  BY <1>1, <1>12, PackageInv
<1>13. CASE RemoveBuild
  BY <1>1, <1>13 DEF RemoveBuild, clang, Inv, StepsOK, CollectedOK, FormattedOK,
                     LintedOK, Formats, LintsOnly
<1>14. CASE UNCHANGED vars
  BY <1>1, <1>14 DEF vars, Inv, StepsOK, CollectedOK, FormattedOK, LintedOK, Formats,
                     LintsOnly
<1>15. QED
  BY <1>1, <1>2, <1>3, <1>4, <1>5, <1>6, <1>7, <1>8, <1>9, <1>10, <1>11, <1>12,
     <1>13, <1>14 DEF Next

LEMMA DevkitInv == Spec => []Inv
BY InitInv, NextInv, PTL DEF Spec

LEMMA ListsAreRespected == Inv => ListsRespected
<1>1. SUFFICES ASSUME Inv PROVE ListsRespected
  OBVIOUS
<1>2. touched \cap Kept("format") = {}
  BY <1>1, LegalIs DEF Inv, FormattedOK
<1>3. exit = "success" /\ Formats =>
        (Sources \cup CMakeFiles)
          \ (Kept("format") \cup UNION {Below(d) : d \in IgnoreDir["tidy"]})
        \subseteq touched
  BY <1>1, LegalIs DEF Inv, FormattedOK
<1>4. LintsOnly => linted \cap Kept("tidy") = {}
  BY <1>1, LegalIs DEF Inv, LintedOK
<1>5. QED
  BY <1>2, <1>3, <1>4 DEF ListsRespected, Formats, LintsOnly

\* Whatever is invoked, interrupted or fails, in whatever tree: formatting reaches
\* every legal file and no other, and linting alone no file that is kept from it.
THEOREM ListsRespectedAlways == Spec => []ListsRespected
BY DevkitInv, ListsAreRespected, PTL
=============================================================================
