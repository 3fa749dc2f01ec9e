---------------------------- MODULE MCProcesses ----------------------------
(* Instances of Processes for TLC: init, a shell and its children.           *)
EXTENDS Processes

\* Jobs that the shell starts, kills, stops, continues and waits for, which
\* read, catch and hold signals, pause and make children themselves.
JobPrograms == [p \in Procs |->
    CASE p = init  -> {"wait"}
      [] p = shell -> {"fork", "vfork", "exit", "waitstopped", "kill"}
      [] OTHER     -> {"exit", "exec", "tty", "disk", "sigvec", "sigsetmask",
                       "sigpause", "vfork", "wait", "poll"}]

\* The interrupt character of a terminal.
InterruptKey == {<<HUP>>}

\* A shell that kills what it has started, and children that read and exit.
LivePrograms == [p \in Procs |->
    CASE p = init  -> {"wait"}
      [] p = shell -> {"fork", "vfork", "exit", "wait", "kill"}
      [] OTHER     -> {"exec", "exit", "tty"}]
=============================================================================
