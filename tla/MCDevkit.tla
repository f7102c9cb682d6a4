------------------------------ MODULE MCDevkit ------------------------------
(* A part of the real tree, with the lists of tooling/settings.py. *)
EXTENDS Devkit

MCSources == {"version.cpp", "version_test.cpp", "asio.hpp", "scheduler.hpp"}
MCCMakeFiles == {"CMakeLists.txt"}
MCPaths == {"include", "asio", "detail", "tests"} \cup MCSources \cup MCCMakeFiles
MCParent ==
  [p \in MCPaths |->
     CASE p \in {"asio", "asio.hpp"} -> "include"
       [] p = "detail" -> "asio"
       [] p = "scheduler.hpp" -> "detail"
       [] p = "version_test.cpp" -> "tests"
       [] OTHER -> "garak"]
MCIgnoreFile ==
  [t \in Tools |-> IF t = "format" THEN {"asio.hpp"}
                                   ELSE {"version_test.cpp", "asio.hpp"}]
MCIgnoreDir == [t \in Tools |-> {"asio"}]
============================================================================
