---------------------------- MODULE PowerSetting ----------------------------
(***************************************************************************)
(* Whether the owner may reboot the server is written down three times: in *)
(* agent.toml, as a sentinel file the root helper looks at, and in the     *)
(* memory of the running agent, which read agent.toml when it started.     *)
(* `g7tg power enable/disable`, `g7tg setup` and the package's postinst    *)
(* change the two files, one file operation after the other, each of which *)
(* may fail, and any of these commands may be killed or overlap another.   *)
(*                                                                         *)
(* write_atomic renames a new file into place, owned by root:root; only    *)
(* set_owner_and_mode gives it to the group of the agent.  Until then the  *)
(* agent cannot read agent.toml, and the helper does not accept the        *)
(* sentinel.                                                               *)
(***************************************************************************)
EXTENDS Naturals, Sequences

CONSTANTS Commands,      \* the commands typed at the console, each run once
          Kinds,         \* bound: which of power, setup and upgrade they may be
          MaxFailures    \* bound: failing operations

ASSUME BoundAssumption ==
    /\ Kinds \subseteq {"power", "setup", "upgrade"}
    /\ MaxFailures \in Nat

VARIABLES config,    \* agent.toml: its flag, and whether the agent may read it
          sentinel,  \* allow-server-reboot: absent, root's own, or the agent's group's
          agent,     \* the running agent and the flag it has in memory
          pc,        \* the phase of each command
          cmd,       \* its locals
          todo,      \* the file operations left in its phase
          alone,     \* history: no other command has run beside it
          failures   \* bound

vars == <<config, sentinel, agent, pc, cmd, todo, alone, failures>>

Ended == {"passed", "failed", "killed"}
FilePhases == {"config", "sentinel", "undoConfig", "undoSentinel"}
Running(p) == pc[p] \notin Ended \cup {"idle"}
Quiet == \A p \in Commands : ~Running(p)

\* g7tg-exec check-reboot: the sentinel exists, with the owner, group, mode
\* and content that the setup gives it.
Effective == sentinel = "owned"

-----------------------------------------------------------------------------
\* The file operations of a phase.

\* configure_reboot_sentinel.  Nothing is done about a sentinel that is not there.
SentinelOps(enabled) ==
    IF enabled THEN <<"replaceSentinel", "chownSentinel">> ELSE <<"removeSentinel">>

\* write_config.
ConfigOps == <<"replaceConfig", "chownConfig">>

\* postinst only gives both files their owner and mode again.
Ops(c, phase) ==
    IF c.kind = "upgrade"
    THEN CASE phase = "config" -> <<"chownConfig">>
           [] phase = "sentinel" -> <<"chownSentinel">>
           [] OTHER -> <<>>
    ELSE CASE phase \in {"config", "undoConfig"} -> ConfigOps
           [] phase = "sentinel" -> SentinelOps(c.enabled)
           [] phase = "undoSentinel" -> SentinelOps(c.helper)
           [] OTHER -> <<>>

\* Where a command goes when the operations of a phase have succeeded: power
\* writes the sentinel first, setup the config first.
Continue(c, phase) ==
    CASE phase = "undoConfig" -> "undoSentinel"
      [] phase = "undoSentinel" -> "failed"
      [] phase = "config" -> IF c.kind = "power" THEN "restart" ELSE "sentinel"
      [] phase = "sentinel" /\ c.kind = "power" -> "config"
      [] phase = "sentinel" /\ c.kind = "setup" -> "store"
      [] phase = "sentinel" /\ c.kind = "upgrade" -> "restart"

\* Faulty variant: a failed config leaves the sentinel as it was written.
GiveWayHalf(c, phase) ==
    IF c.kind # "power" \/ phase = "config" THEN "failed"
    ELSE IF phase = "sentinel" THEN "undoSentinel" ELSE Continue(c, phase)

\* Where it goes when one of them has failed.  Only power has a way back, and
\* it goes on with the way back when a step of that fails as well.
GiveWay(c, phase) ==
    IF c.kind # "power" THEN "failed"
    ELSE CASE phase = "sentinel" -> "undoSentinel"
           [] phase = "config" -> "undoConfig"
           [] OTHER -> Continue(c, phase)

Enter(p, c, phase) ==
    /\ pc' = [pc EXCEPT ![p] = phase]
    /\ cmd' = [cmd EXCEPT ![p] = c]
    /\ todo' = [todo EXCEPT ![p] = Ops(c, phase)]

-----------------------------------------------------------------------------
NoCommand == [kind |-> "none", enabled |-> FALSE, start |-> TRUE, flag |-> FALSE,
              helper |-> FALSE, original |-> FALSE, clean |-> TRUE]

\* An installed server on which the three agree.
Init ==
    /\ \E on \in BOOLEAN :
         /\ config = [flag |-> on, readable |-> TRUE]
         /\ sentinel = IF on THEN "owned" ELSE "absent"
         /\ agent = IF on THEN "on" ELSE "off"
    /\ pc = [p \in Commands |-> "idle"]
    /\ cmd = [p \in Commands |-> NoCommand]
    /\ todo = [p \in Commands |-> <<>>]
    /\ alone = [p \in Commands |-> FALSE]
    /\ failures = 0

\* main: the config is loaded before anything else, and kept for minutes by a
\* setup that waits for its prompts.  The answer to the prompt is `enabled`.
Start(p) ==
    /\ pc[p] = "idle"
    /\ \E kind \in Kinds, enabled, start \in BOOLEAN :
         /\ kind # "setup" => start
         /\ kind = "upgrade" => enabled = config.flag
         /\ LET c == [NoCommand EXCEPT !.kind = kind, !.enabled = enabled,
                                       !.start = start, !.flag = config.flag]
            IN  Enter(p, c, CASE kind = "power" -> "check"
                              [] kind = "setup" -> "ask"
                              [] kind = "upgrade" -> "config")
    /\ alone' = [q \in Commands |-> IF q = p THEN Quiet ELSE alone[q] /\ ~Running(q)]
    /\ UNCHANGED <<config, sentinel, agent, failures>>

\* Faulty variant: the helper alone decides.
MustWriteSentinel(c) == c.helper # c.enabled

\* The flag of agent.toml that was loaded, or what the helper says, may differ
\* from what is asked; otherwise nothing is written.
MustWrite(c) == c.flag # c.enabled \/ c.helper # c.enabled

CheckHelper(p) ==
    /\ pc[p] = "check"
    /\ LET c == [cmd[p] EXCEPT !.helper = Effective]
       IN  Enter(p, c, IF MustWrite(c) THEN "read" ELSE "restart")
    /\ UNCHANGED <<config, sentinel, agent, alone, failures>>

\* original_body is read again from the file, not taken from the loaded config.
ReadBody(p) ==
    /\ pc[p] = "read"
    /\ Enter(p, [cmd[p] EXCEPT !.original = config.flag], "sentinel")
    /\ UNCHANGED <<config, sentinel, agent, alone, failures>>

\* setup: prompts, get_me, discovery and the allowlist, before the first of the
\* two files is touched.
Ask(p) ==
    /\ pc[p] = "ask"
    /\ Enter(p, cmd[p], "config")
    /\ UNCHANGED <<config, sentinel, agent, alone, failures>>

\* One file operation that succeeds.
Apply(op, flag) ==
    /\ config' = CASE op = "replaceConfig" -> [flag |-> flag, readable |-> FALSE]
                   [] op = "chownConfig" -> [config EXCEPT !.readable = TRUE]
                   [] OTHER -> config
    /\ sentinel' = CASE op = "replaceSentinel" -> "unowned"
                     [] op = "chownSentinel" /\ sentinel # "absent" -> "owned"
                     [] op = "removeSentinel" -> "absent"
                     [] OTHER -> sentinel

FileStep(p) ==
    /\ pc[p] \in FilePhases
    /\ LET c == cmd[p]
           op == Head(todo[p])
       IN  /\ ~(op = "chownSentinel" /\ sentinel = "absent" /\ c.kind # "upgrade")
           /\ Apply(op, IF pc[p] = "undoConfig" THEN c.original ELSE c.enabled)
           /\ IF Len(todo[p]) = 1
              THEN Enter(p, c, Continue(c, pc[p]))
              ELSE /\ todo' = [todo EXCEPT ![p] = Tail(@)]
                   /\ UNCHANGED <<pc, cmd>>
    /\ UNCHANGED <<agent, alone, failures>>

\* One that fails: nothing was renamed or removed; chown or the chmod after it
\* did not work; or the file was removed by another command in between.
FileFails(p) ==
    /\ pc[p] \in FilePhases
    /\ LET c == cmd[p]
           op == Head(todo[p])
           gone == op = "chownSentinel" /\ sentinel = "absent" /\ c.kind # "upgrade"
           undo == pc[p] \in {"undoConfig", "undoSentinel"}
           d == [c EXCEPT !.clean = @ /\ ~undo]
       IN  /\ failures' = IF gone THEN failures ELSE failures + 1
           /\ gone \/ failures < MaxFailures
           /\ \/ UNCHANGED <<config, sentinel>>
              \/ op \in {"chownConfig", "chownSentinel"} /\ Apply(op, c.enabled)
           /\ Enter(p, d, GiveWay(d, pc[p]))
    /\ UNCHANGED <<agent, alone>>

\* setup: the database, the pairing code (see module Pairing) and the secret.
OpenStore(p) ==
    /\ pc[p] = "store"
    /\ Enter(p, cmd[p], IF cmd[p].start THEN "restart" ELSE "passed")
    /\ UNCHANGED <<config, sentinel, agent, alone, failures>>

\* What a starting agent makes of the files: it ends at once if it may not
\* read agent.toml.
Started == CASE ~config.readable -> "down"
             [] config.readable /\ config.flag -> "on"
             [] OTHER -> "off"

\* systemctl restart, which for a simple service succeeds before the process
\* has read anything.
Restart(p) ==
    /\ pc[p] = "restart"
    /\ agent' = Started
    /\ Enter(p, cmd[p], "active")
    /\ UNCHANGED <<config, sentinel, alone, failures>>

\* Two seconds later systemctl is-active decides.
IsActive(p) ==
    /\ pc[p] = "active"
    /\ Enter(p, cmd[p], CASE agent = "down" -> "failed"
                          [] agent # "down" /\ cmd[p].kind = "power" -> "verify"
                          [] OTHER -> "passed")
    /\ UNCHANGED <<config, sentinel, agent, alone, failures>>

\* Faulty variant: PASS as soon as the agent is active.
VerifyNothing(p) ==
    /\ pc[p] = "verify"
    /\ Enter(p, cmd[p], "passed")
    /\ UNCHANGED <<config, sentinel, agent, alone, failures>>

\* power asks the helper once more before it prints PASS.
Verify(p) ==
    /\ pc[p] = "verify"
    /\ Enter(p, cmd[p], IF Effective = cmd[p].enabled THEN "passed" ELSE "failed")
    /\ UNCHANGED <<config, sentinel, agent, alone, failures>>

\* Any of the other steps may fail, and ends the command where it is.  A failed
\* systemctl restart may have restarted the agent.
StepFails(p) ==
    /\ Running(p) /\ pc[p] \notin FilePhases
    /\ failures < MaxFailures
    /\ failures' = failures + 1
    /\ agent' \in {agent} \cup (IF pc[p] = "restart" THEN {Started, "down"} ELSE {})
    /\ Enter(p, cmd[p], "failed")
    /\ UNCHANGED <<config, sentinel, alone>>

\* Ctrl-C or a lost terminal.
Kill(p) ==
    /\ Running(p)
    /\ Enter(p, cmd[p], "killed")
    /\ UNCHANGED <<config, sentinel, agent, alone, failures>>

\* The agent dies, and systemd starts it again from the files as they are.
AgentStops ==
    /\ agent # "down"
    /\ agent' = "down"
    /\ UNCHANGED <<config, sentinel, pc, cmd, todo, alone, failures>>

AgentStarts ==
    /\ agent = "down" /\ Started # "down"
    /\ agent' = Started
    /\ UNCHANGED <<config, sentinel, pc, cmd, todo, alone, failures>>

Next ==
    \/ \E p \in Commands :
         \/ Start(p) \/ CheckHelper(p) \/ ReadBody(p) \/ Ask(p) \/ FileStep(p)
         \/ FileFails(p) \/ OpenStore(p) \/ Restart(p) \/ IsActive(p) \/ Verify(p)
         \/ StepFails(p) \/ Kill(p)
    \/ AgentStops \/ AgentStarts

Spec == Init /\ [][Next]_vars

-----------------------------------------------------------------------------
\* A power command that prints PASS, and beside which no other command ran, is
\* right: agent.toml, the helper and a running agent all say what was asked,
\* whatever earlier commands that failed or were killed had left behind.
PassIsTrue ==
    [][\A p \in Commands :
         /\ pc[p] # "passed" /\ pc'[p] = "passed"
         /\ cmd[p].kind = "power" /\ alone[p]
         => /\ config.readable
            /\ config.flag = cmd[p].enabled
            /\ Effective = cmd[p].enabled
            /\ agent \in {"down", IF cmd[p].enabled THEN "on" ELSE "off"}]_vars

\* A power command that rolls back, and whose way back succeeds, leaves
\* agent.toml and the helper as it found them.
RollbackRestores ==
    [][\A p \in Commands :
         /\ pc[p] \in FilePhases /\ pc'[p] = "failed"
         /\ cmd[p].kind = "power" /\ cmd'[p].clean /\ alone[p]
         => /\ config'.flag = cmd[p].flag
            /\ (sentinel' = "owned") = cmd[p].helper]_vars

Went(p, outcomes) == pc[p] \in outcomes

\* Commands may overlap: when none is left, and agent.toml and the helper
\* disagree or the agent cannot read its file, somebody was told: one of the
\* commands failed or was killed, or a setup, which does not look back, ran
\* beside another command.
DamageIsReported ==
    /\ Quiet
    /\ config.flag # Effective \/ ~config.readable
    => \E p \in Commands :
         \/ Went(p, {"failed", "killed"})
         \/ Went(p, {"passed"}) /\ cmd[p].kind = "setup" /\ ~alone[p]
=============================================================================
