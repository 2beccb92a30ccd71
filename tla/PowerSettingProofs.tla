-------------------------- MODULE PowerSettingProofs --------------------------
(***************************************************************************)
(* What PowerSetting promises, for any number of commands of any kinds     *)
(* that run beside each other: damage is never silent, a PASS is true, and *)
(* a rollback that failed nowhere has restored everything.                 *)
(*                                                                         *)
(* Damage is seen in the two files, which commands write one operation at  *)
(* a time and without a lock.  The invariant names, for every way in which *)
(* they may be unsound, the command that is still to repair it or to find  *)
(* it out: agent.toml is unreadable only until somebody gives it away      *)
(* (Readable), the sentinel unowned likewise (Owned), and they disagree    *)
(* only while a power command has written one of them and not the other,   *)
(* or has yet to look back at what it wrote, or a setup owes the sentinel  *)
(* (Agreed, Written).  When that command breaks off instead, it is one     *)
(* that failed, was killed or rolls back, which is trouble that is         *)
(* reported and stays (Trouble); a setup does not look back, so one beside *)
(* which another command ran counts as trouble as well.                    *)
(*                                                                         *)
(* A rollback can be trusted only where nobody interfered: for a power     *)
(* command that ran alone, Progress says at each of its phases what it has *)
(* made of the files so far, and AloneRuns that it is the only one.        *)
(***************************************************************************)
EXTENDS PowerSetting, TLAPS

-----------------------------------------------------------------------------
(* The inductive invariant                                                 *)

\* The commands that change the setting.
KindsOfCommand == {"power", "setup", "upgrade"}

\* What a command remembers.
CmdRecords ==
  [kind : KindsOfCommand \cup {"none"}, enabled : BOOLEAN, start : BOOLEAN, flag : BOOLEAN,
   helper : BOOLEAN, original : BOOLEAN, clean : BOOLEAN]

\* A power command that rolls back.
Undo == {"undoConfig", "undoSentinel"}
\* A power command that has written both files.
Closing == {"restart", "active", "verify"}

\* The phases a command of this kind goes through.
PhasesOf(kind) ==
  Ended \cup {"config", "sentinel", "restart", "active"} \cup
    (IF kind = "power" THEN {"check", "read", "verify"} \cup Undo
     ELSE IF kind = "setup" THEN {"ask", "store"} ELSE {})

\* The operations that may be left of writing a file.
Todos == {<<>>, ConfigOps, <<"chownConfig">>,
          SentinelOps(TRUE), <<"chownSentinel">>, SentinelOps(FALSE)}

\* The operations that may be left in a phase.
LeftSentinel(enabled) ==
  IF enabled THEN {SentinelOps(TRUE), <<"chownSentinel">>} ELSE {SentinelOps(FALSE)}

\* The operations left of the file that is written in this phase.
Left(c, phase) ==
  IF phase \in {"config", "undoConfig"}
  THEN {<<"chownConfig">>} \cup (IF c.kind = "upgrade" THEN {} ELSE {ConfigOps})
  ELSE IF phase = "sentinel"
  THEN IF c.kind = "upgrade" THEN {<<"chownSentinel">>} ELSE LeftSentinel(c.enabled)
  ELSE IF phase = "undoSentinel" THEN LeftSentinel(c.helper)
  ELSE {<<>>}

\* Every variable keeps its type, and a command its route.
TypeOK ==
  /\ config \in [flag : BOOLEAN, readable : BOOLEAN]
  /\ sentinel \in {"absent", "unowned", "owned"}
  /\ agent \in {"on", "off", "down"}
  /\ pc \in [Commands -> {"idle"} \cup PhasesOf("power") \cup PhasesOf("setup")]
  /\ cmd \in [Commands -> CmdRecords]
  /\ todo \in [Commands -> Todos]
  /\ alone \in [Commands -> BOOLEAN]
  /\ failures \in Nat
  /\ \A p \in Commands : pc[p] # "idle" => /\ cmd[p].kind \in KindsOfCommand
                                           /\ pc[p] \in PhasesOf(cmd[p].kind)
                                           /\ todo[p] \in Left(cmd[p], pc[p])

\* A running command that is alone is the only one that runs.
AloneRuns ==
  \A p \in Commands : Running(p) /\ alone[p] => \A q \in Commands : Running(q) => q = p

\* What an undisturbed power command has made of the files so far.
Progress(p) ==
  /\ pc[p] \in {"check", "read", "sentinel"} => config.flag = cmd[p].flag
  /\ pc[p] \in {"sentinel", "config", "undoConfig"} => cmd[p].original = cmd[p].flag
  /\ pc[p] = "config" =>
       config.flag = IF todo[p] = ConfigOps THEN cmd[p].flag ELSE cmd[p].enabled
  /\ pc[p] = "undoConfig" /\ cmd[p].clean /\ todo[p] # ConfigOps => config.flag = cmd[p].flag
  /\ pc[p] = "undoSentinel" /\ cmd[p].clean => config.flag = cmd[p].flag
  /\ pc[p] \in Closing => config.flag = cmd[p].enabled
  /\ pc[p] \in {"active", "verify"} => agent \in {"down", Started}
  /\ pc[p] = "verify" => config.readable

\* A power command beside which no other ran knows what the files hold.
Undisturbed ==
  \A p \in Commands :
    cmd[p].kind = "power" /\ alone[p] /\ Running(p) => Progress(p)

\* A command that will be reported, or was: it is rolling back, has failed, was killed,
\* or is a setup beside which another command ran.
Troubled(p) ==
  \/ pc[p] \in Undo \cup {"failed", "killed"}
  \/ pc[p] # "idle" /\ cmd[p].kind = "setup" /\ ~alone[p]

\* Somebody is in trouble.
Trouble == \E p \in Commands : Troubled(p)

\* The helper accepts reboots.
Present == sentinel # "absent"

\* It has yet to give agent.toml, or the sentinel, to the group of the agent.
GivesConfig(p) == pc[p] = "config" /\ todo[p] = <<"chownConfig">>
\* It has written the sentinel, and has yet to give it to the group.
GivesSentinel(p) ==
  pc[p] = "sentinel" /\ cmd[p].kind # "upgrade" /\ todo[p] = <<"chownSentinel">>

\* A power command that has written the sentinel, and agent.toml not yet.
OwesConfig(p) ==
  /\ cmd[p].kind = "power"
  /\ \/ GivesSentinel(p)
     \/ pc[p] = "config" /\ todo[p] = ConfigOps

\* A power command that has written agent.toml if it had to, and has yet to look back.
LooksBack(p) == cmd[p].kind = "power" /\ (GivesConfig(p) \/ pc[p] \in Closing)

\* A setup that has written agent.toml, and the sentinel not yet.
OwesSentinel(p) ==
  /\ cmd[p].kind = "setup"
  /\ \/ GivesConfig(p)
     \/ pc[p] = "sentinel" /\ ~GivesSentinel(p)

\* The agent can read agent.toml, or is being given it.
Readable == config.readable \/ \E p \in Commands : GivesConfig(p)

\* The sentinel has its group, or is being given it.
Owned == sentinel # "unowned" \/ \E p \in Commands : GivesSentinel(p)

\* The two files agree, or a command is still to make them agree or to find out.
Agreed ==
  \/ config.flag = Present
  \/ \E p \in Commands : OwesConfig(p) /\ cmd[p].enabled = Present
  \/ \E p \in Commands : LooksBack(p) /\ cmd[p].enabled = config.flag
  \/ \E p \in Commands : OwesSentinel(p)

\* A setup that owes the sentinel has written agent.toml the same way.
Written == \A p \in Commands : OwesSentinel(p) => cmd[p].enabled = config.flag

\* Without trouble the files are sound.
Sound == Trouble \/ (Readable /\ Owned /\ Agreed /\ Written)

\* The inductive invariant.
IInv == TypeOK /\ AloneRuns /\ Undisturbed /\ Sound

-----------------------------------------------------------------------------
(* The phases and their operations                                         *)

\* What is left to do, and what is left after the next operation.
LEMMA TodoPart ==
  \A ops \in Todos \ {<<>>} :
    \/ /\ ops = ConfigOps /\ Head(ops) = "replaceConfig" /\ Len(ops) = 2
       /\ Tail(ops) = <<"chownConfig">> /\ ops # <<"chownConfig">>
    \/ ops = <<"chownConfig">> /\ Head(ops) = "chownConfig" /\ Len(ops) = 1 /\ ops # ConfigOps
    \/ /\ ops = SentinelOps(TRUE) /\ Head(ops) = "replaceSentinel" /\ Len(ops) = 2
       /\ Tail(ops) = <<"chownSentinel">> /\ ops # <<"chownSentinel">>
    \/ ops = <<"chownSentinel">> /\ Head(ops) = "chownSentinel" /\ Len(ops) = 1
    \/ /\ ops = SentinelOps(FALSE) /\ Head(ops) = "removeSentinel" /\ Len(ops) = 1
       /\ ops # <<"chownSentinel">>
<1>1. /\ Head(ConfigOps) = "replaceConfig" /\ Len(ConfigOps) = 2
      /\ Tail(ConfigOps) = <<"chownConfig">>
  BY DEF ConfigOps
<1>2. /\ Head(SentinelOps(TRUE)) = "replaceSentinel" /\ Len(SentinelOps(TRUE)) = 2
      /\ Tail(SentinelOps(TRUE)) = <<"chownSentinel">>
  BY DEF SentinelOps
<1>3. Head(SentinelOps(FALSE)) = "removeSentinel" /\ Len(SentinelOps(FALSE)) = 1
  BY DEF SentinelOps
<1>4. /\ Head(<<"chownConfig">>) = "chownConfig" /\ Len(<<"chownConfig">>) = 1
      /\ Head(<<"chownSentinel">>) = "chownSentinel" /\ Len(<<"chownSentinel">>) = 1
  OBVIOUS
<1>5. /\ ConfigOps # <<"chownConfig">> /\ SentinelOps(TRUE) # <<"chownSentinel">>
      /\ SentinelOps(FALSE) # <<"chownSentinel">>
  BY <1>1, <1>2, <1>3, <1>4
<1>6. QED
  BY <1>1, <1>2, <1>3, <1>4, <1>5 DEF Todos

\* Every phase starts with operations that may be left in it.
LEMMA OpsPart ==
  ASSUME NEW c \in CmdRecords, c.kind \in KindsOfCommand, NEW phase \in PhasesOf(c.kind)
  PROVE  Ops(c, phase) \in Todos /\ Ops(c, phase) \in Left(c, phase)
<1>1. c.enabled \in BOOLEAN /\ c.helper \in BOOLEAN
  BY DEF CmdRecords
<1> USE DEF Ops, Left, LeftSentinel, Todos
<1>2. CASE phase \in {"config", "undoConfig"}
  BY <1>2 DEF PhasesOf, KindsOfCommand, Ended, FilePhases, Undo
<1>3. CASE phase = "sentinel"
  BY <1>1, <1>3 DEF KindsOfCommand
<1>4. CASE phase = "undoSentinel"
  BY <1>1, <1>4 DEF PhasesOf, KindsOfCommand, Ended, Undo
<1>5. CASE phase \notin {"config", "undoConfig", "sentinel", "undoSentinel"}
  BY <1>5
<1>6. QED
  BY <1>2, <1>3, <1>4, <1>5

\* Where a command goes is on its route; a command that rolls back goes on with that.
LEMMA RoutePart ==
  ASSUME NEW c \in CmdRecords, c.kind \in KindsOfCommand,
         NEW phase \in PhasesOf(c.kind) \cap FilePhases
  PROVE  /\ Continue(c, phase) \in PhasesOf(c.kind) /\ GiveWay(c, phase) \in PhasesOf(c.kind)
         /\ phase \in Undo => /\ Continue(c, phase) \in Undo \cup {"failed"}
                              /\ GiveWay(c, phase) \in Undo \cup {"failed"}
         /\ GiveWay(c, phase) \in Undo \cup {"failed"}
<1> USE DEF Continue, GiveWay, PhasesOf, KindsOfCommand, FilePhases, Undo, Ended
<1>1. CASE c.kind = "power"
  BY <1>1
<1>2. CASE c.kind = "setup"
  BY <1>2
<1>3. CASE c.kind = "upgrade"
  BY <1>3
<1>4. QED
  BY <1>1, <1>2, <1>3

\* A command that enters a phase.
LEMMA EnterPart ==
  ASSUME TypeOK, NEW p \in Commands, NEW c \in CmdRecords, c.kind \in KindsOfCommand,
         NEW phase \in PhasesOf(c.kind), Enter(p, c, phase)
  PROVE  /\ pc' \in [Commands -> {"idle"} \cup PhasesOf("power") \cup PhasesOf("setup")]
         /\ cmd' \in [Commands -> CmdRecords]
         /\ todo' \in [Commands -> Todos]
         /\ pc'[p] = phase /\ cmd'[p] = c /\ todo'[p] = Ops(c, phase)
         /\ todo'[p] \in Left(c, phase)
         /\ pc'[p] # "idle"
         /\ \A q \in Commands : q # p => pc'[q] = pc[q] /\ cmd'[q] = cmd[q] /\ todo'[q] = todo[q]
         /\ \A q \in Commands : pc'[q] # "idle" => /\ cmd'[q].kind \in KindsOfCommand
                                                   /\ pc'[q] \in PhasesOf(cmd'[q].kind)
                                                   /\ todo'[q] \in Left(cmd'[q], pc'[q])
<1>1. Ops(c, phase) \in Todos /\ Ops(c, phase) \in Left(c, phase)
  BY OpsPart
<1>2. phase \in PhasesOf("power") \cup PhasesOf("setup") /\ phase # "idle"
  BY DEF PhasesOf, KindsOfCommand, Ended, Undo
<1>3. /\ pc' = [pc EXCEPT ![p] = phase] /\ cmd' = [cmd EXCEPT ![p] = c]
      /\ todo' = [todo EXCEPT ![p] = Ops(c, phase)]
  BY DEF Enter
<1>4. QED
  BY <1>1, <1>2, <1>3 DEF TypeOK

-----------------------------------------------------------------------------
(* One step of one command                                                 *)

\* A command takes a step.
Step(p) ==
  \/ CheckHelper(p) \/ ReadBody(p) \/ Ask(p) \/ FileStep(p) \/ FileFails(p) \/ OpenStore(p)
  \/ Restart(p) \/ IsActive(p) \/ Verify(p) \/ StepFails(p) \/ Kill(p)

\* What every such step does: it moves one running command along its route.
Moved(p) ==
  /\ Running(p) /\ pc'[p] # "idle"
  /\ UNCHANGED alone
  /\ cmd'[p].kind = cmd[p].kind /\ cmd'[p].enabled = cmd[p].enabled
  /\ pc[p] \in Undo => pc'[p] \in Undo \cup {"failed", "killed"}
  /\ \A q \in Commands : q # p => pc'[q] = pc[q] /\ cmd'[q] = cmd[q] /\ todo'[q] = todo[q]

\* A file operation that succeeds or not leaves files of the known kinds.
LEMMA ApplyPart ==
  ASSUME TypeOK, NEW op, NEW flag \in BOOLEAN, Apply(op, flag)
  PROVE  /\ config' \in [flag : BOOLEAN, readable : BOOLEAN]
         /\ sentinel' \in {"absent", "unowned", "owned"}
<1>1. /\ config \in [flag : BOOLEAN, readable : BOOLEAN]
      /\ sentinel \in {"absent", "unowned", "owned"}
  BY DEF TypeOK
<1>2. [flag |-> flag, readable |-> FALSE] \in [flag : BOOLEAN, readable : BOOLEAN]
  OBVIOUS
<1>3. [config EXCEPT !.readable = TRUE] \in [flag : BOOLEAN, readable : BOOLEAN]
  BY <1>1
<1>4. config' \in {[flag |-> flag, readable |-> FALSE], [config EXCEPT !.readable = TRUE], config}
  BY DEF Apply
<1>5. sentinel' \in {"unowned", "owned", "absent", sentinel}
  BY DEF Apply
<1>6. QED
  BY <1>1, <1>2, <1>3, <1>4, <1>5

\* The place of a command, and the fields its steps set.
LEMMA RunningPart ==
  ASSUME TypeOK, NEW p \in Commands, Running(p)
  PROVE  /\ pc[p] \in PhasesOf(cmd[p].kind) /\ cmd[p].kind \in KindsOfCommand
         /\ cmd[p] \in CmdRecords /\ todo[p] \in Left(cmd[p], pc[p])
         /\ {"failed", "killed", "passed"} \subseteq PhasesOf(cmd[p].kind)
  BY DEF TypeOK, Running, PhasesOf, Ended

\* A command has operations left only in a phase that writes a file.
LEMMA FilePart ==
  ASSUME TypeOK, NEW p \in Commands, pc[p] \in FilePhases
  PROVE  /\ Running(p)
         /\ todo[p] \in Todos \ {<<>>}
         /\ pc[p] \in PhasesOf(cmd[p].kind) \cap FilePhases
<1>1. Running(p)
  BY DEF Running, FilePhases, Ended
<1>2. todo[p] \in Left(cmd[p], pc[p]) /\ pc[p] \in PhasesOf(cmd[p].kind) /\ todo[p] \in Todos
  BY <1>1, RunningPart DEF TypeOK
<1>3. /\ ConfigOps # <<>> /\ <<"chownConfig">> # <<>> /\ SentinelOps(TRUE) # <<>>
      /\ <<"chownSentinel">> # <<>> /\ SentinelOps(FALSE) # <<>>
  BY DEF ConfigOps, SentinelOps
<1>4. todo[p] # <<>>
  BY <1>2, <1>3 DEF Left, LeftSentinel, FilePhases
<1>5. QED
  BY <1>1, <1>2, <1>4

\* An operation that succeeds keeps the command on its route.
LEMMA FileStepMoves ==
  ASSUME TypeOK, NEW p \in Commands, FileStep(p)
  PROVE  TypeOK' /\ Moved(p)
<1> DEFINE c == cmd[p]
<1>1. /\ pc[p] \in FilePhases /\ Running(p) /\ todo[p] \in Todos \ {<<>>}
      /\ pc[p] \in PhasesOf(c.kind) \cap FilePhases
  BY FilePart DEF FileStep
<1>2. c.kind \in KindsOfCommand /\ c \in CmdRecords /\ todo[p] \in Left(c, pc[p])
  BY <1>1, RunningPart
<1>3. UNCHANGED <<agent, alone, failures>>
  BY DEF FileStep
<1>4. /\ config' \in [flag : BOOLEAN, readable : BOOLEAN]
      /\ sentinel' \in {"absent", "unowned", "owned"}
  <2> DEFINE flag == IF pc[p] = "undoConfig" THEN c.original ELSE c.enabled
  <2>1. flag \in BOOLEAN
    BY <1>2 DEF CmdRecords
  <2>2. Apply(Head(todo[p]), flag)
    BY DEF FileStep
  <2> HIDE DEF flag
  <2>3. QED
    BY <2>1, <2>2, ApplyPart
<1>5. CASE Len(todo[p]) = 1
  <2>1. Enter(p, c, Continue(c, pc[p]))
    BY <1>5 DEF FileStep
  <2>2. /\ Continue(c, pc[p]) \in PhasesOf(c.kind)
        /\ pc[p] \in Undo => Continue(c, pc[p]) \in Undo \cup {"failed"}
    BY <1>1, <1>2, RoutePart
  <2> HIDE DEF c
  <2>3. QED
    BY <1>1, <1>2, <1>3, <1>4, <2>1, <2>2, EnterPart DEF TypeOK, Moved, c
<1>6. CASE Len(todo[p]) # 1
  <2>1. /\ todo' = [todo EXCEPT ![p] = Tail(todo[p])] /\ UNCHANGED <<pc, cmd>>
    BY <1>6 DEF FileStep
  <2>2. /\ Tail(todo[p]) \in {<<"chownConfig">>, <<"chownSentinel">>}
        /\ Tail(todo[p]) \in Left(c, pc[p])
    <3>1. /\ Len(<<"chownConfig">>) = 1 /\ Len(<<"chownSentinel">>) = 1
          /\ Len(SentinelOps(FALSE)) = 1
      BY DEF SentinelOps
    <3>2. CASE pc[p] \in {"config", "undoConfig"}
      <4>1. todo[p] = ConfigOps
        BY <1>2, <1>6, <3>1, <3>2 DEF Left
      <4>2. Tail(todo[p]) = <<"chownConfig">>
        BY <4>1 DEF ConfigOps
      <4>3. QED
        BY <3>2, <4>2 DEF Left
    <3>3. CASE pc[p] \in {"sentinel", "undoSentinel"}
      <4>1. todo[p] = SentinelOps(TRUE) /\ Left(c, pc[p]) = LeftSentinel(TRUE)
        BY <1>2, <1>6, <3>1, <3>3 DEF Left, LeftSentinel
      <4>2. Tail(todo[p]) = <<"chownSentinel">>
        BY <4>1 DEF SentinelOps
      <4>3. QED
        BY <4>1, <4>2 DEF LeftSentinel
    <3>4. QED
      BY <1>1, <3>2, <3>3 DEF FilePhases
  <2>3. Tail(todo[p]) \in Todos
    BY <2>2 DEF Todos
  <2>4. \A q \in Commands : q # p => todo'[q] = todo[q]
    BY <2>1 DEF TypeOK
  <2>5. todo'[p] = Tail(todo[p]) /\ todo' \in [Commands -> Todos]
    BY <2>1, <2>3 DEF TypeOK
  <2>6. QED
    BY <1>1, <1>2, <1>3, <1>4, <2>1, <2>2, <2>4, <2>5 DEF TypeOK, Moved, Running
<1>7. QED
  BY <1>5, <1>6

\* So does an operation that fails.
LEMMA FileFailsMoves ==
  ASSUME TypeOK, NEW p \in Commands, FileFails(p)
  PROVE  TypeOK' /\ Moved(p) /\ pc'[p] \in Undo \cup {"failed"}
<1> DEFINE c == cmd[p]
           d == [c EXCEPT !.clean = @ /\ ~(pc[p] \in {"undoConfig", "undoSentinel"})]
<1>1. /\ pc[p] \in FilePhases /\ Running(p)
      /\ pc[p] \in PhasesOf(c.kind) \cap FilePhases
  BY FilePart DEF FileFails
<1>2. c.kind \in KindsOfCommand /\ c \in CmdRecords
  BY <1>1, RunningPart
<1>3. Enter(p, d, GiveWay(d, pc[p])) /\ UNCHANGED <<agent, alone>>
  BY DEF FileFails
<1>4. d \in CmdRecords /\ d.kind = c.kind /\ d.enabled = c.enabled
  BY <1>2 DEF CmdRecords
<1>5. failures' \in Nat
  BY DEF FileFails, TypeOK
<1>6. /\ config' \in [flag : BOOLEAN, readable : BOOLEAN]
      /\ sentinel' \in {"absent", "unowned", "owned"}
  <2>1. UNCHANGED <<config, sentinel>> \/ Apply(Head(todo[p]), c.enabled)
    BY DEF FileFails
  <2>2. c.enabled \in BOOLEAN
    BY <1>2 DEF CmdRecords
  <2>3. QED
    BY <2>1, <2>2, ApplyPart DEF TypeOK
<1> HIDE DEF d
<1>7. GiveWay(d, pc[p]) \in PhasesOf(d.kind) /\ GiveWay(d, pc[p]) \in Undo \cup {"failed"}
  BY <1>1, <1>2, <1>4, RoutePart
<1>8. QED
  BY <1>1, <1>2, <1>3, <1>4, <1>5, <1>6, <1>7, EnterPart DEF TypeOK, Moved

\* So does every other step of a command.
LEMMA OtherStepMoves ==
  ASSUME TypeOK, NEW p \in Commands,
         \/ CheckHelper(p) \/ ReadBody(p) \/ Ask(p) \/ OpenStore(p)
         \/ Restart(p) \/ IsActive(p) \/ Verify(p) \/ StepFails(p) \/ Kill(p)
  PROVE  TypeOK' /\ Moved(p)
<1>1. UNCHANGED <<config, sentinel, alone>> /\ failures' \in Nat
  BY DEF CheckHelper, ReadBody, Ask, OpenStore, Restart, IsActive, Verify, StepFails, Kill, TypeOK
<1>2. agent' \in {"on", "off", "down"}
  BY DEF CheckHelper, ReadBody, Ask, OpenStore, Restart, IsActive, Verify, StepFails, Kill, TypeOK,
         Started
<1>3. Running(p)
  BY DEF CheckHelper, ReadBody, Ask, OpenStore, Restart, IsActive, Verify, StepFails, Kill,
         Running, Ended
<1>4. /\ pc[p] \in PhasesOf(cmd[p].kind) /\ cmd[p].kind \in KindsOfCommand
      /\ cmd[p] \in CmdRecords
      /\ {"failed", "killed", "passed"} \subseteq PhasesOf(cmd[p].kind)
  BY <1>3, RunningPart
<1>5. PICK c \in CmdRecords, phase \in PhasesOf(cmd[p].kind) :
        /\ Enter(p, c, phase)
        /\ c.kind = cmd[p].kind /\ c.enabled = cmd[p].enabled
        /\ pc[p] \in Undo => phase \in {"failed", "killed"}
  <2>1. CASE CheckHelper(p)
    <3> DEFINE c == [cmd[p] EXCEPT !.helper = Effective]
               phase == IF MustWrite(c) THEN "read" ELSE "restart"
    <3>1. c \in CmdRecords /\ c.kind = cmd[p].kind /\ c.enabled = cmd[p].enabled
      BY <1>4 DEF CmdRecords, Effective
    <3>2. cmd[p].kind = "power"
      BY <1>4, <2>1 DEF CheckHelper, PhasesOf, Ended
    <3>3. phase \in PhasesOf("power")
      BY DEF PhasesOf
    <3>4. Enter(p, c, phase) /\ pc[p] = "check"
      BY <2>1 DEF CheckHelper
    <3> HIDE DEF c, phase
    <3>5. QED
      BY <3>1, <3>2, <3>3, <3>4 DEF Undo
  <2>2. CASE ReadBody(p)
    <3> DEFINE c == [cmd[p] EXCEPT !.original = config.flag]
    <3>1. c \in CmdRecords /\ c.kind = cmd[p].kind /\ c.enabled = cmd[p].enabled
      BY <1>4 DEF CmdRecords, TypeOK
    <3>2. "sentinel" \in PhasesOf(cmd[p].kind)
      BY DEF PhasesOf
    <3>3. Enter(p, c, "sentinel") /\ pc[p] = "read"
      BY <2>2 DEF ReadBody
    <3> HIDE DEF c
    <3>4. QED
      BY <3>1, <3>2, <3>3 DEF Undo
  <2>3. CASE Ask(p)
    BY <1>4, <2>3 DEF Ask, PhasesOf, Undo
  <2>4. CASE OpenStore(p)
    <3>1. {"restart", "passed"} \subseteq PhasesOf(cmd[p].kind)
      BY DEF PhasesOf, Ended
    <3>2. QED
      BY <1>4, <2>4, <3>1 DEF OpenStore, Undo
  <2>5. CASE Restart(p)
    BY <1>4, <2>5 DEF Restart, PhasesOf, Undo
  <2>6. CASE IsActive(p)
    <3> DEFINE phase == CASE agent = "down" -> "failed"
                          [] agent # "down" /\ cmd[p].kind = "power" -> "verify"
                          [] OTHER -> "passed"
    <3>1. phase \in PhasesOf(cmd[p].kind)
      BY DEF PhasesOf, Ended
    <3>2. Enter(p, cmd[p], phase) /\ pc[p] = "active"
      BY <2>6 DEF IsActive
    <3> HIDE DEF phase
    <3>3. QED
      BY <1>4, <3>1, <3>2 DEF Undo
  <2>7. CASE Verify(p)
    BY <1>4, <2>7 DEF Verify, Undo
  <2>8. CASE StepFails(p) \/ Kill(p)
    BY <1>4, <2>8 DEF StepFails, Kill
  <2>9. QED
    BY <2>1, <2>2, <2>3, <2>4, <2>5, <2>6, <2>7, <2>8
<1>6. QED
  BY <1>1, <1>2, <1>3, <1>4, <1>5, EnterPart DEF TypeOK, Moved

\* Start: a command that was idle takes its place beside those that run.
LEMMA StartPart ==
  ASSUME TypeOK, NEW p \in Commands, Start(p)
  PROVE  /\ TypeOK'
         /\ pc[p] = "idle" /\ pc'[p] \in {"check", "ask", "config"}
         /\ pc'[p] = "check" => cmd'[p].kind = "power" /\ cmd'[p].flag = config.flag
         /\ pc'[p] = "ask" => cmd'[p].kind = "setup"
         /\ pc'[p] = "config" => cmd'[p].kind = "upgrade"
         /\ alone' = [q \in Commands |-> IF q = p THEN Quiet ELSE alone[q] /\ ~Running(q)]
         /\ \A q \in Commands : q # p => pc'[q] = pc[q] /\ cmd'[q] = cmd[q] /\ todo'[q] = todo[q]
         /\ UNCHANGED <<config, sentinel, agent, failures>>
<1>1. PICK kind \in Kinds, enabled \in BOOLEAN, start \in BOOLEAN :
        Enter(p, [NoCommand EXCEPT !.kind = kind, !.enabled = enabled,
                                   !.start = start, !.flag = config.flag],
              CASE kind = "power" -> "check"
                [] kind = "setup" -> "ask"
                [] kind = "upgrade" -> "config")
  BY DEF Start
<1> DEFINE c == [NoCommand EXCEPT !.kind = kind, !.enabled = enabled,
                                  !.start = start, !.flag = config.flag]
           phase == CASE kind = "power" -> "check"
                      [] kind = "setup" -> "ask"
                      [] kind = "upgrade" -> "config"
<1>2. kind \in KindsOfCommand
  BY BoundAssumption DEF KindsOfCommand
<1>3. c \in CmdRecords /\ c.kind = kind /\ c.flag = config.flag
  BY <1>2 DEF CmdRecords, NoCommand, TypeOK
<1>4. /\ phase \in PhasesOf(kind) /\ phase \in {"check", "ask", "config"}
      /\ phase = "check" => kind = "power"
      /\ phase = "ask" => kind = "setup"
      /\ phase = "config" => kind = "upgrade"
  BY <1>2 DEF KindsOfCommand, PhasesOf
<1>5. Enter(p, c, phase)
  BY <1>1
<1>6. /\ pc[p] = "idle" /\ UNCHANGED <<config, sentinel, agent, failures>>
      /\ alone' = [q \in Commands |-> IF q = p THEN Quiet ELSE alone[q] /\ ~Running(q)]
  BY DEF Start
<1>7. alone' \in [Commands -> BOOLEAN]
  BY <1>6 DEF Quiet, Running, TypeOK
<1> HIDE DEF c, phase
<1>8. QED
  BY <1>2, <1>3, <1>4, <1>5, <1>6, <1>7, EnterPart DEF TypeOK

-----------------------------------------------------------------------------
(* What the file operations do                                             *)

\* Whether the sentinel is to be present after this phase.
Wanted(p) == IF pc[p] = "sentinel" THEN cmd[p].enabled ELSE cmd[p].helper

\* The command went on to its next phase.
Entered(p) ==
  pc'[p] = Continue(cmd[p], pc[p]) /\ todo'[p] = Ops(cmd[p], Continue(cmd[p], pc[p]))

\* agent.toml is replaced; the group of the agent cannot read it yet.
ReplacesConfig(p) ==
  /\ pc[p] \in {"config", "undoConfig"} /\ todo[p] = ConfigOps /\ cmd[p].kind # "upgrade"
  /\ config' = [flag |-> IF pc[p] = "undoConfig" THEN cmd[p].original ELSE cmd[p].enabled,
                readable |-> FALSE]
  /\ sentinel' = sentinel
  /\ pc'[p] = pc[p] /\ todo'[p] = <<"chownConfig">>

\* agent.toml is given to the group.
ChownsConfig(p) ==
  /\ pc[p] \in {"config", "undoConfig"} /\ todo[p] = <<"chownConfig">>
  /\ config' = [config EXCEPT !.readable = TRUE]
  /\ sentinel' = sentinel
  /\ Entered(p)

\* The sentinel is created; it is still unowned.
ReplacesSentinel(p) ==
  /\ pc[p] \in {"sentinel", "undoSentinel"} /\ todo[p] = SentinelOps(TRUE)
  /\ cmd[p].kind # "upgrade" /\ Wanted(p)
  /\ config' = config /\ sentinel' = "unowned"
  /\ pc'[p] = pc[p] /\ todo'[p] = <<"chownSentinel">>

\* The sentinel is given to the group.
ChownsSentinel(p) ==
  /\ pc[p] \in {"sentinel", "undoSentinel"} /\ todo[p] = <<"chownSentinel">>
  /\ cmd[p].kind # "upgrade" => Wanted(p) /\ sentinel # "absent"
  /\ config' = config
  /\ sentinel' = IF sentinel = "absent" THEN "absent" ELSE "owned"
  /\ Entered(p)

\* The sentinel is removed.
RemovesSentinel(p) ==
  /\ pc[p] \in {"sentinel", "undoSentinel"} /\ todo[p] = SentinelOps(FALSE)
  /\ cmd[p].kind # "upgrade" /\ ~Wanted(p)
  /\ config' = config /\ sentinel' = "absent"
  /\ Entered(p)

\* The operations left of the sentinel say which way it is written.
LEMMA LeftSentinelPart ==
  ASSUME NEW e \in BOOLEAN, NEW ops \in LeftSentinel(e)
  PROVE  \/ e /\ ops = SentinelOps(TRUE) /\ Len(ops) = 2
         \/ e /\ ops = <<"chownSentinel">> /\ Len(ops) = 1
         \/ ~e /\ ops = SentinelOps(FALSE) /\ Len(ops) = 1
<1>1. Len(SentinelOps(TRUE)) = 2 /\ Len(SentinelOps(FALSE)) = 1 /\ Len(<<"chownSentinel">>) = 1
  BY DEF SentinelOps
<1>2. CASE e
  BY <1>1, <1>2 DEF LeftSentinel
<1>3. CASE ~e
  BY <1>1, <1>3 DEF LeftSentinel
<1>4. QED
  BY <1>2, <1>3

\* In a phase of the sentinel, what is left says how it is written.
LEMMA LeftInSentinel ==
  ASSUME TypeOK, NEW p \in Commands, pc[p] \in {"sentinel", "undoSentinel"}
  PROVE  \/ cmd[p].kind = "upgrade" /\ todo[p] = <<"chownSentinel">> /\ Len(todo[p]) = 1
         \/ /\ cmd[p].kind # "upgrade"
            /\ \/ Wanted(p) /\ todo[p] = SentinelOps(TRUE) /\ Len(todo[p]) = 2
               \/ Wanted(p) /\ todo[p] = <<"chownSentinel">> /\ Len(todo[p]) = 1
               \/ ~Wanted(p) /\ todo[p] = SentinelOps(FALSE) /\ Len(todo[p]) = 1
<1>1. /\ pc[p] \in FilePhases /\ Running(p) /\ pc[p] \in PhasesOf(cmd[p].kind) \cap FilePhases
  BY FilePart DEF FilePhases
<1>2. /\ todo[p] \in Left(cmd[p], pc[p]) /\ cmd[p] \in CmdRecords
      /\ cmd[p].kind \in KindsOfCommand
  BY <1>1, RunningPart
<1>3. Wanted(p) \in BOOLEAN
  BY <1>2 DEF Wanted, CmdRecords
<1>4. CASE cmd[p].kind = "upgrade"
  <2>1. pc[p] = "sentinel"
    BY <1>1, <1>4 DEF PhasesOf, Ended
  <2>2. QED
    BY <1>2, <1>4, <2>1 DEF Left
<1>5. CASE cmd[p].kind # "upgrade"
  <2>1. todo[p] \in LeftSentinel(Wanted(p))
    BY <1>2, <1>5 DEF Left, Wanted
  <2>2. QED
    BY <1>3, <1>5, <2>1, LeftSentinelPart
<1>6. QED
  BY <1>4, <1>5

\* An operation on a file is one of the five.
LEMMA FileStepCases ==
  ASSUME TypeOK, NEW p \in Commands, FileStep(p)
  PROVE  /\ cmd'[p] = cmd[p] /\ UNCHANGED agent
         /\ \/ ReplacesConfig(p) \/ ChownsConfig(p)
            \/ ReplacesSentinel(p) \/ ChownsSentinel(p) \/ RemovesSentinel(p)
<1> DEFINE c == cmd[p]
           op == Head(todo[p])
<1>1. /\ pc[p] \in FilePhases /\ Running(p)
      /\ pc[p] \in PhasesOf(c.kind) \cap FilePhases
  BY FilePart DEF FileStep
<1>2. /\ c.kind \in KindsOfCommand /\ c \in CmdRecords /\ todo[p] \in Left(c, pc[p])
      /\ c.enabled \in BOOLEAN /\ c.helper \in BOOLEAN
  BY <1>1, RunningPart DEF CmdRecords
<1>3. /\ UNCHANGED agent
      /\ ~(op = "chownSentinel" /\ sentinel = "absent" /\ c.kind # "upgrade")
      /\ Apply(op, IF pc[p] = "undoConfig" THEN c.original ELSE c.enabled)
      /\ IF Len(todo[p]) = 1
         THEN Enter(p, c, Continue(c, pc[p]))
         ELSE todo' = [todo EXCEPT ![p] = Tail(todo[p])] /\ UNCHANGED <<pc, cmd>>
  BY DEF FileStep
<1>4. /\ Len(ConfigOps) = 2 /\ Len(<<"chownConfig">>) = 1
      /\ Len(SentinelOps(TRUE)) = 2 /\ Len(<<"chownSentinel">>) = 1
      /\ Len(SentinelOps(FALSE)) = 1
  BY DEF ConfigOps, SentinelOps
<1>8. /\ Head(ConfigOps) = "replaceConfig" /\ Tail(ConfigOps) = <<"chownConfig">>
      /\ Head(<<"chownConfig">>) = "chownConfig"
      /\ Head(SentinelOps(TRUE)) = "replaceSentinel"
      /\ Tail(SentinelOps(TRUE)) = <<"chownSentinel">>
      /\ Head(<<"chownSentinel">>) = "chownSentinel"
      /\ Head(SentinelOps(FALSE)) = "removeSentinel"
  BY DEF ConfigOps, SentinelOps
<1>5. CASE Len(todo[p]) = 1
  <2>1. Enter(p, c, Continue(c, pc[p]))
    BY <1>3, <1>5
  <2>2. Continue(c, pc[p]) \in PhasesOf(c.kind)
    BY <1>1, <1>2, RoutePart
  <2>3. Entered(p) /\ cmd'[p] = cmd[p]
    BY <1>2, <2>1, <2>2, EnterPart DEF Entered
  <2>4. CASE pc[p] \in {"config", "undoConfig"}
    <3>1. todo[p] = <<"chownConfig">>
      BY <1>2, <1>4, <1>5, <2>4 DEF Left
    <3>2. QED
      BY <1>3, <1>8, <2>3, <2>4, <3>1 DEF ChownsConfig, Apply
  <2>5. CASE pc[p] \in {"sentinel", "undoSentinel"}
    <3>0. todo[p] = <<"chownSentinel">> \/ todo[p] = SentinelOps(FALSE)
      <4>1. \/ todo[p] = <<"chownSentinel">> \/ todo[p] = SentinelOps(FALSE)
            \/ Len(todo[p]) = 2
        BY <2>5, LeftInSentinel
      <4>2. Len(todo[p]) # 2
        BY <1>5
      <4>3. QED
        BY <4>1, <4>2
    <3>1. CASE todo[p] = <<"chownSentinel">>
      <4>1. op = "chownSentinel"
        BY <1>8, <3>1
      <4>2. c.kind # "upgrade" => Wanted(p)
        <5>1. <<"chownSentinel">> # SentinelOps(FALSE)
          BY <1>8
        <5>2. QED
          BY <2>5, <3>1, <5>1, LeftInSentinel
      <4> HIDE DEF op
      <4>3. config' = config /\ sentinel' = IF sentinel = "absent" THEN "absent" ELSE "owned"
        BY <1>3, <4>1 DEF Apply
      <4>4. QED
        BY <1>3, <2>3, <2>5, <3>1, <4>1, <4>2, <4>3 DEF ChownsSentinel
    <3>2. CASE todo[p] = SentinelOps(FALSE)
      <4>1. op = "removeSentinel"
        BY <1>8, <3>2
      <4>2. c.kind # "upgrade" /\ ~Wanted(p)
        <5>1. <<"chownSentinel">> # SentinelOps(FALSE) /\ SentinelOps(TRUE) # SentinelOps(FALSE)
          BY <1>8
        <5>2. QED
          BY <2>5, <3>2, <5>1, LeftInSentinel
      <4> HIDE DEF op
      <4>3. config' = config /\ sentinel' = "absent"
        BY <1>3, <4>1 DEF Apply
      <4>4. QED
        BY <1>3, <2>3, <2>5, <3>2, <4>2, <4>3 DEF RemovesSentinel
    <3>3. QED
      BY <3>0, <3>1, <3>2
  <2>6. QED
    BY <1>1, <1>3, <2>3, <2>4, <2>5 DEF FilePhases
<1>6. CASE Len(todo[p]) # 1
  <2>1. todo' = [todo EXCEPT ![p] = Tail(todo[p])] /\ UNCHANGED <<pc, cmd>>
    BY <1>3, <1>6
  <2>2. todo'[p] = Tail(todo[p]) /\ pc'[p] = pc[p] /\ cmd'[p] = cmd[p]
    BY <2>1 DEF TypeOK
  <2>3. CASE pc[p] \in {"config", "undoConfig"}
    <3>1. todo[p] = ConfigOps /\ c.kind # "upgrade"
      BY <1>2, <1>4, <1>6, <2>3 DEF Left
    <3>2. op = "replaceConfig"
      BY <1>8, <3>1
    <3> HIDE DEF op
    <3>3. QED
      BY <1>3, <1>8, <2>2, <2>3, <3>1, <3>2 DEF ReplacesConfig, Apply
  <2>4. CASE pc[p] \in {"sentinel", "undoSentinel"}
    <3>1. todo[p] = SentinelOps(TRUE) /\ c.kind # "upgrade" /\ Wanted(p)
      BY <1>6, <2>4, LeftInSentinel
    <3>2. op = "replaceSentinel"
      BY <1>8, <3>1
    <3> HIDE DEF op
    <3>3. QED
      BY <1>3, <1>8, <2>2, <2>4, <3>1, <3>2 DEF ReplacesSentinel, Apply
  <2>5. QED
    BY <1>1, <1>3, <2>2, <2>3, <2>4 DEF FilePhases
<1>7. QED
  BY <1>5, <1>6

-----------------------------------------------------------------------------
(* The steps, one invariant at a time                                      *)

\* The agent stops or starts by itself.
AgentStep == AgentStops \/ AgentStarts

\* The steps of the system.
LEMMA NextPart ==
  ASSUME [Next]_vars
  PROVE  (\E p \in Commands : Start(p) \/ Step(p)) \/ AgentStep \/ UNCHANGED vars
  BY DEF Next, Step, AgentStep

\* Every step of a command keeps it on its route, and leaves the others alone.
LEMMA StepMoves ==
  ASSUME TypeOK, NEW p \in Commands, Step(p)
  PROVE  TypeOK' /\ Moved(p)
  BY FileStepMoves, FileFailsMoves, OtherStepMoves DEF Step

\* The agent stops and starts beside the commands.
LEMMA AgentPart ==
  ASSUME TypeOK, AgentStep
  PROVE  /\ TypeOK' /\ UNCHANGED <<config, sentinel, pc, cmd, todo, alone>>
         /\ agent' \in {"down", Started}
<1>1. /\ UNCHANGED <<config, sentinel, pc, cmd, todo, alone, failures>>
      /\ agent' \in {"down", Started} /\ agent' \in {"on", "off", "down"}
  BY DEF AgentStep, AgentStops, AgentStarts, Started
<1>2. QED
  BY <1>1 DEF TypeOK

\* Whoever starts beside a command disturbs it, and is disturbed.
LEMMA AloneStep ==
  ASSUME TypeOK, AloneRuns, [Next]_vars
  PROVE  AloneRuns'
<1>1. CASE \E p \in Commands : Start(p)
  <2>1. PICK p \in Commands : Start(p)
    BY <1>1
  <2>2. /\ alone' = [q \in Commands |-> IF q = p THEN Quiet ELSE alone[q] /\ ~Running(q)]
        /\ \A q \in Commands : q # p => pc'[q] = pc[q]
    BY <2>1, StartPart
  <2>3. \A q \in Commands : q # p => (Running(q)' <=> Running(q))
    BY <2>2 DEF Running
  <2>4. alone'[p] => \A q \in Commands : Running(q)' => q = p
    BY <2>2, <2>3 DEF Quiet
  <2>5. \A q \in Commands : q # p /\ Running(q)' => ~alone'[q]
    BY <2>2, <2>3
  <2>6. QED
    BY <2>4, <2>5 DEF AloneRuns
<1>2. CASE \E p \in Commands : Step(p)
  <2>1. PICK p \in Commands : Moved(p)
    BY <1>2, StepMoves
  <2>2. \A q \in Commands : Running(q)' => Running(q)
    BY <2>1 DEF Moved, Running
  <2>3. QED
    BY <2>1, <2>2 DEF Moved, AloneRuns
<1>3. CASE AgentStep \/ UNCHANGED vars
  <2>1. UNCHANGED <<pc, alone>>
    BY <1>3, AgentPart DEF vars
  <2>2. QED
    BY <2>1 DEF AloneRuns, Running
<1>4. QED
  BY <1>1, <1>2, <1>3, NextPart

\* An undisturbed power command, one step further.
LEMMA ProgressPart ==
  ASSUME TypeOK, NEW p \in Commands, Progress(p), cmd[p].kind = "power", Running(p), Step(p),
         Running(p)'
  PROVE  Progress(p)'
<1>1. /\ TypeOK' /\ Moved(p) /\ cmd[p] \in CmdRecords
      /\ pc[p] \in PhasesOf(cmd[p].kind) /\ cmd[p].kind \in KindsOfCommand
  BY StepMoves, RunningPart
<1>2. config \in [flag : BOOLEAN, readable : BOOLEAN] /\ cmd[p].original \in BOOLEAN
      /\ cmd[p].enabled \in BOOLEAN /\ cmd[p].flag \in BOOLEAN
  BY <1>1 DEF TypeOK, CmdRecords
<1> USE DEF Progress, Closing
<1>3. CASE CheckHelper(p)
  <2> DEFINE c == [cmd[p] EXCEPT !.helper = Effective]
  <2>1. /\ c \in CmdRecords /\ c.flag = cmd[p].flag /\ c.enabled = cmd[p].enabled
        /\ c.kind = "power"
    BY <1>1 DEF CmdRecords, Effective
  <2>2. /\ pc[p] = "check" /\ UNCHANGED <<config, agent>>
        /\ Enter(p, c, IF MustWrite(c) THEN "read" ELSE "restart")
    BY <1>3 DEF CheckHelper
  <2> HIDE DEF c
  <2>3. pc'[p] = (IF MustWrite(c) THEN "read" ELSE "restart") /\ cmd'[p] = c
    <3>1. {"read", "restart"} \subseteq PhasesOf("power")
      BY DEF PhasesOf
    <3>2. QED
      BY <2>1, <2>2, <3>1, EnterPart DEF KindsOfCommand
  <2>4. CASE pc'[p] = "read"
    BY <2>1, <2>2, <2>3, <2>4
  <2>5. CASE pc'[p] = "restart"
    <3>1. c.flag = c.enabled
      BY <2>3, <2>5 DEF MustWrite
    <3>2. QED
      BY <2>1, <2>2, <2>3, <2>5, <3>1
  <2>6. QED
    BY <2>3, <2>4, <2>5
<1>4. CASE ReadBody(p)
  <2> DEFINE c == [cmd[p] EXCEPT !.original = config.flag]
  <2>1. /\ c \in CmdRecords /\ c.flag = cmd[p].flag /\ c.original = config.flag
        /\ c.kind = "power"
    BY <1>1, <1>2 DEF CmdRecords
  <2>2. pc[p] = "read" /\ UNCHANGED <<config, agent>> /\ Enter(p, c, "sentinel")
    BY <1>4 DEF ReadBody
  <2> HIDE DEF c
  <2>3. pc'[p] = "sentinel" /\ cmd'[p] = c
    <3>1. "sentinel" \in PhasesOf("power")
      BY DEF PhasesOf
    <3>2. QED
      BY <2>1, <2>2, <3>1, EnterPart DEF KindsOfCommand
  <2>4. QED
    BY <2>1, <2>2, <2>3
<1>5. CASE Ask(p) \/ OpenStore(p)
  BY <1>1, <1>5 DEF Ask, OpenStore, PhasesOf, Ended, Undo
<1>6. CASE FileStep(p)
  <2>1. /\ cmd'[p] = cmd[p] /\ UNCHANGED agent
        /\ \/ ReplacesConfig(p) \/ ChownsConfig(p)
           \/ ReplacesSentinel(p) \/ ChownsSentinel(p) \/ RemovesSentinel(p)
    BY <1>6, FileStepCases
  <2>2. /\ ConfigOps # <<"chownConfig">>
        /\ pc[p] = "config" => Continue(cmd[p], pc[p]) = "restart"
        /\ pc[p] = "undoConfig" => Continue(cmd[p], pc[p]) = "undoSentinel"
        /\ pc[p] = "sentinel" => Continue(cmd[p], pc[p]) = "config"
        /\ pc[p] = "undoSentinel" => Continue(cmd[p], pc[p]) = "failed"
        /\ Ops(cmd[p], "config") = ConfigOps
    <3>1. Len(ConfigOps) = 2 /\ Len(<<"chownConfig">>) = 1
      BY DEF ConfigOps
    <3>2. ConfigOps # <<"chownConfig">>
      BY <3>1
    <3>3. QED
      BY <3>2 DEF Continue, Ops
  <2>3. CASE ReplacesConfig(p)
    BY <1>2, <2>1, <2>2, <2>3 DEF ReplacesConfig
  <2>4. CASE ChownsConfig(p)
    <3>1. config'.flag = config.flag
      BY <1>2, <2>4 DEF ChownsConfig
    <3>2. pc[p] \in {"config", "undoConfig"} /\ todo[p] # ConfigOps
          /\ pc'[p] = IF pc[p] = "config" THEN "restart" ELSE "undoSentinel"
      BY <2>2, <2>4 DEF ChownsConfig, Entered
    <3>3. QED
      BY <2>1, <3>1, <3>2
  <2>5. CASE ReplacesSentinel(p)
    BY <2>1, <2>5 DEF ReplacesSentinel
  <2>6. CASE ChownsSentinel(p) \/ RemovesSentinel(p)
    <3>1. /\ pc[p] \in {"sentinel", "undoSentinel"} /\ config' = config
          /\ pc[p] = "sentinel" => pc'[p] = "config" /\ todo'[p] = ConfigOps
          /\ pc[p] = "undoSentinel" => pc'[p] = "failed"
      BY <2>2, <2>6 DEF ChownsSentinel, RemovesSentinel, Entered
    <3>2. CASE pc[p] = "sentinel"
      BY <2>1, <3>1, <3>2
    <3>3. CASE pc[p] = "undoSentinel"
      BY <3>1, <3>3 DEF Running, Ended
    <3>4. QED
      BY <3>1, <3>2, <3>3
  <2>7. QED
    BY <2>1, <2>3, <2>4, <2>5, <2>6
<1>7. CASE FileFails(p)
  <2> DEFINE undo == pc[p] \in Undo
             d == [cmd[p] EXCEPT !.clean = @ /\ ~undo]
  <2>1. pc[p] \in FilePhases /\ pc[p] \in PhasesOf(cmd[p].kind) \cap FilePhases
    BY <1>7, FilePart DEF FileFails
  <2>2. Enter(p, d, GiveWay(d, pc[p])) /\ UNCHANGED agent
    BY <1>7 DEF FileFails, Undo
  <2>3. /\ d \in CmdRecords /\ d.kind = "power" /\ d.flag = cmd[p].flag
        /\ d.original = cmd[p].original
        /\ undo => ~d.clean
    BY <1>1 DEF CmdRecords
  <2>4. config'.flag = config.flag
    <3>1. UNCHANGED config \/ (/\ Head(todo[p]) \in {"chownConfig", "chownSentinel"}
                               /\ Apply(Head(todo[p]), cmd[p].enabled))
      BY <1>7 DEF FileFails
    <3>2. UNCHANGED config \/ config' = [config EXCEPT !.readable = TRUE]
      BY <3>1 DEF Apply
    <3>3. QED
      BY <1>2, <3>2
  <2> HIDE DEF d
  <2>5. GiveWay(d, pc[p]) \in PhasesOf(d.kind)
    BY <1>1, <2>1, <2>3, RoutePart
  <2>6. pc'[p] = GiveWay(d, pc[p]) /\ cmd'[p] = d /\ todo'[p] = Ops(d, GiveWay(d, pc[p]))
    BY <1>1, <2>2, <2>3, <2>5, EnterPart
  <2>7. /\ pc[p] = "sentinel" => pc'[p] = "undoSentinel"
        /\ pc[p] = "config" => pc'[p] = "undoConfig" /\ todo'[p] = ConfigOps
        /\ pc[p] = "undoConfig" => pc'[p] = "undoSentinel"
        /\ pc[p] = "undoSentinel" => pc'[p] = "failed"
    BY <2>3, <2>6 DEF GiveWay, Continue, Ops
  <2>8. CASE pc[p] = "sentinel"
    BY <2>3, <2>4, <2>6, <2>7, <2>8
  <2>9. CASE pc[p] = "config"
    <3>1. cmd[p].original = cmd[p].flag
      BY <2>9
    <3>2. pc'[p] = "undoConfig" /\ todo'[p] = ConfigOps /\ cmd'[p].original = cmd'[p].flag
      BY <2>3, <2>6, <2>7, <2>9, <3>1
    <3>3. QED
      BY <3>2
  <2>10. CASE pc[p] \in Undo
    <3>1. ~d.clean
      BY <2>3, <2>10
    <3>2. ~cmd'[p].clean
      BY <2>6, <3>1
    <3>3. pc'[p] \in {"undoSentinel", "failed"}
      BY <2>7, <2>10 DEF Undo
    <3>4. QED
      BY <3>2, <3>3
  <2>11. QED
    BY <2>1, <2>8, <2>9, <2>10 DEF FilePhases, Undo
<1>8. CASE Restart(p)
  <2>1. pc'[p] = "active" /\ cmd'[p] = cmd[p] /\ UNCHANGED config /\ agent' = Started
        /\ pc[p] = "restart"
    <3>1. "active" \in PhasesOf("power")
      BY DEF PhasesOf
    <3>2. QED
      BY <1>1, <1>8, <3>1, EnterPart DEF Restart
  <2>2. Started' = Started
    BY <2>1 DEF Started
  <2>3. QED
    BY <2>1, <2>2
<1>9. CASE IsActive(p)
  <2>1. /\ pc'[p] = (IF agent = "down" THEN "failed" ELSE "verify") /\ cmd'[p] = cmd[p]
        /\ UNCHANGED <<config, agent>> /\ pc[p] = "active"
    <3>1. {"failed", "verify"} \subseteq PhasesOf("power")
      BY DEF PhasesOf, Ended
    <3>2. Enter(p, cmd[p], IF agent = "down" THEN "failed" ELSE "verify")
      BY <1>9 DEF IsActive
    <3>3. QED
      BY <1>1, <1>9, <3>1, <3>2, EnterPart DEF IsActive
  <2>2. agent # "down" => config.readable
    BY <2>1 DEF Started
  <2>3. Started' = Started
    BY <2>1 DEF Started
  <2>4. QED
    BY <2>1, <2>2, <2>3 DEF Running, Ended
<1>10. CASE Verify(p) \/ StepFails(p) \/ Kill(p)
  <2>1. pc'[p] \in {"passed", "failed", "killed"}
    <3>1. \E phase \in {"passed", "failed", "killed"} : Enter(p, cmd[p], phase)
      BY <1>10 DEF Verify, StepFails, Kill
    <3>2. {"passed", "failed", "killed"} \subseteq PhasesOf(cmd[p].kind)
      BY RunningPart
    <3>3. QED
      BY <1>1, <3>1, <3>2, EnterPart
  <2>2. QED
    BY <2>1 DEF Running, Ended
<1>11. QED
  BY <1>3, <1>4, <1>5, <1>6, <1>7, <1>8, <1>9, <1>10 DEF Step

\* An undisturbed power command keeps knowing what the files hold.
LEMMA UndisturbedStep ==
  ASSUME TypeOK, AloneRuns, Undisturbed, [Next]_vars
  PROVE  Undisturbed'
<1> SUFFICES ASSUME NEW q \in Commands, cmd'[q].kind = "power", alone'[q], Running(q)'
             PROVE  Progress(q)'
  BY DEF Undisturbed
<1>1. CASE \E p \in Commands : Start(p)
  <2>1. PICK p \in Commands : Start(p)
    BY <1>1
  <2>2. CASE q = p
    <3>1. /\ pc'[q] \in {"check", "ask", "config"} /\ cmd'[q].kind = "power"
          /\ pc'[q] = "check" => cmd'[q].flag = config.flag
          /\ pc'[q] = "ask" => cmd'[q].kind = "setup"
          /\ pc'[q] = "config" => cmd'[q].kind = "upgrade"
          /\ UNCHANGED config
      BY <2>1, <2>2, StartPart
    <3>2. pc'[q] = "check" /\ config'.flag = cmd'[q].flag
      BY <3>1
    <3>3. QED
      BY <3>2 DEF Progress, Closing
  <2>3. CASE q # p
    <3>1. /\ alone' = [r \in Commands |-> IF r = p THEN Quiet ELSE alone[r] /\ ~Running(r)]
          /\ pc'[q] = pc[q]
      BY <2>1, <2>3, StartPart
    <3>2. ~Running(q) /\ Running(q)
      BY <2>3, <3>1 DEF Running
    <3>3. QED
      BY <3>2
  <2>4. QED
    BY <2>2, <2>3
<1>2. CASE \E p \in Commands : Step(p)
  <2>1. PICK p \in Commands : Step(p)
    BY <1>2
  <2>2. Moved(p)
    BY <2>1, StepMoves
  <2>3. Running(q) /\ alone[q] /\ Running(p)
    BY <2>2 DEF Moved, Running
  <2>4. p = q
    BY <2>3 DEF AloneRuns
  <2>5. cmd[q].kind = "power"
    BY <2>2, <2>4 DEF Moved
  <2>6. QED
    BY <2>1, <2>3, <2>4, <2>5, ProgressPart DEF Undisturbed
<1>3. CASE AgentStep \/ UNCHANGED vars
  <2>1. /\ UNCHANGED <<config, pc, cmd, todo, alone>>
        /\ agent' \in {agent, "down", Started}
    BY <1>3, AgentPart DEF vars
  <2>2. Progress(q)
    BY <2>1 DEF Undisturbed, Running
  <2>3. Started' = Started
    BY <2>1 DEF Started
  <2>4. QED
    BY <2>1, <2>2, <2>3 DEF Progress
<1>4. QED
  BY <1>1, <1>2, <1>3, NextPart

\* Whoever will be reported will be reported.
LEMMA TroubleStays ==
  ASSUME TypeOK, Trouble, [Next]_vars
  PROVE  Trouble'
<1>1. PICK q \in Commands : Troubled(q)
  BY DEF Trouble
<1> SUFFICES Troubled(q)'
  BY DEF Trouble
<1>2. CASE \E p \in Commands : Start(p)
  <2>1. PICK p \in Commands : Start(p)
    BY <1>2
  <2>2. q # p
    BY <1>1, <2>1, StartPart DEF Troubled, Undo
  <2>3. /\ alone' = [r \in Commands |-> IF r = p THEN Quiet ELSE alone[r] /\ ~Running(r)]
        /\ pc'[q] = pc[q] /\ cmd'[q] = cmd[q]
    BY <2>1, <2>2, StartPart
  <2>4. ~alone[q] => ~alone'[q]
    BY <2>2, <2>3
  <2>5. QED
    BY <1>1, <2>3, <2>4 DEF Troubled
<1>3. CASE \E p \in Commands : Step(p)
  <2>1. PICK p \in Commands : Moved(p)
    BY <1>3, StepMoves
  <2>2. CASE q = p
    BY <1>1, <2>1, <2>2 DEF Moved, Troubled, Running, Ended
  <2>3. CASE q # p
    BY <1>1, <2>1, <2>3 DEF Moved, Troubled
  <2>4. QED
    BY <2>2, <2>3
<1>4. CASE AgentStep \/ UNCHANGED vars
  <2>1. UNCHANGED <<pc, cmd, alone>>
    BY <1>4, AgentPart DEF vars
  <2>2. QED
    BY <1>1, <2>1 DEF Troubled
<1>5. QED
  BY <1>2, <1>3, <1>4, NextPart

\* The four parts that make the files sound.
Consistent == Readable /\ Owned /\ Agreed /\ Written

\* As long as nobody is in trouble, a setup that runs is the only command that runs.
LEMMA SetupIsAlone ==
  ASSUME AloneRuns, ~Trouble, NEW p \in Commands, NEW q \in Commands,
         Running(p), cmd[p].kind = "setup", Running(q)
  PROVE  p = q
<1>1. alone[p]
  BY DEF Trouble, Troubled, Running
<1>2. QED
  BY <1>1 DEF AloneRuns

\* Whoever owes a write still runs.
LEMMA OwesRuns ==
  \A p \in Commands : OwesSentinel(p) \/ GivesSentinel(p) => Running(p)
  BY DEF OwesSentinel, GivesConfig, GivesSentinel, Running, Ended

\* Having replaced a file and having yet to replace it are told apart.
LEMMA TodosDiffer ==
  /\ ConfigOps # <<"chownConfig">>
  /\ SentinelOps(TRUE) # <<"chownSentinel">> /\ SentinelOps(FALSE) # <<"chownSentinel">>
<1>1. Head(ConfigOps) = "replaceConfig" /\ Head(SentinelOps(TRUE)) = "replaceSentinel"
  BY DEF ConfigOps, SentinelOps
<1>2. Head(SentinelOps(FALSE)) = "removeSentinel"
  BY DEF SentinelOps
<1>3. Head(<<"chownConfig">>) = "chownConfig" /\ Head(<<"chownSentinel">>) = "chownSentinel"
  OBVIOUS
<1>4. QED
  BY <1>1, <1>2, <1>3

\* The witnesses do not change when they do not move.
LEMMA OthersKept ==
  ASSUME NEW p \in Commands,
         \A q \in Commands : q # p => pc'[q] = pc[q] /\ cmd'[q] = cmd[q] /\ todo'[q] = todo[q],
         NEW q \in Commands, q # p
  PROVE  /\ GivesConfig(q)' <=> GivesConfig(q)
         /\ GivesSentinel(q)' <=> GivesSentinel(q)
         /\ OwesConfig(q)' <=> OwesConfig(q)
         /\ LooksBack(q)' <=> LooksBack(q)
         /\ OwesSentinel(q)' <=> OwesSentinel(q)
         /\ cmd'[q].enabled = cmd[q].enabled
  BY DEF GivesConfig, GivesSentinel, OwesConfig, LooksBack, OwesSentinel

\* A file operation of a command that is not rolling back.
LEMMA FileStepConsistent ==
  ASSUME TypeOK, AloneRuns, ~Trouble, Consistent, NEW p \in Commands, FileStep(p)
  PROVE  Consistent'
<1>1. /\ TypeOK' /\ Moved(p) /\ cmd'[p] = cmd[p] /\ Running(p)
      /\ cmd[p] \in CmdRecords /\ cmd[p].kind \in KindsOfCommand
      /\ pc[p] \in PhasesOf(cmd[p].kind) /\ pc[p] \notin Undo
  BY FileStepMoves, FileStepCases, RunningPart DEF Moved, Trouble, Troubled
<1>2. \A q \in Commands : q # p => pc'[q] = pc[q] /\ cmd'[q] = cmd[q] /\ todo'[q] = todo[q]
  BY <1>1 DEF Moved
<1>3. \A q \in Commands : q # p =>
         /\ GivesConfig(q)' <=> GivesConfig(q)
         /\ GivesSentinel(q)' <=> GivesSentinel(q)
         /\ OwesConfig(q)' <=> OwesConfig(q)
         /\ LooksBack(q)' <=> LooksBack(q)
         /\ OwesSentinel(q)' <=> OwesSentinel(q)
         /\ cmd'[q].enabled = cmd[q].enabled
  BY <1>2, OthersKept
<1>4. cmd[p].enabled \in BOOLEAN /\ config \in [flag : BOOLEAN, readable : BOOLEAN]
      /\ sentinel \in {"absent", "unowned", "owned"}
  BY <1>1 DEF CmdRecords, TypeOK
<1>5. \A q \in Commands : cmd[q].kind = "setup" /\ Running(q) => q = p
  BY <1>1, SetupIsAlone
<1>6. \A q \in Commands : q # p => ~OwesSentinel(q)
  BY <1>5, OwesRuns DEF OwesSentinel
<1>7. CASE ReplacesConfig(p)
  <2>1. /\ pc[p] = "config" /\ todo[p] = ConfigOps /\ cmd[p].kind \in {"power", "setup"}
        /\ config'.flag = cmd[p].enabled /\ UNCHANGED sentinel
        /\ pc'[p] = "config" /\ todo'[p] = <<"chownConfig">>
    BY <1>1, <1>7 DEF ReplacesConfig, Undo, KindsOfCommand
  <2>2. GivesConfig(p)' /\ ~GivesSentinel(p)
    BY <2>1 DEF GivesConfig, GivesSentinel
  <2>3. Owned'
    BY <1>3, <2>1, <2>2 DEF Consistent, Owned
  <2>4. Agreed' /\ Written'
    <3>1. LooksBack(p)' \/ OwesSentinel(p)'
      BY <1>1, <2>1, <2>2 DEF LooksBack, OwesSentinel
    <3>2. cmd'[p].enabled = config'.flag
      BY <1>1, <2>1
    <3>3. QED
      BY <1>3, <1>6, <3>1, <3>2 DEF Agreed, Written
  <2>5. QED
    BY <2>2, <2>3, <2>4 DEF Consistent, Readable
<1>8. CASE ChownsConfig(p)
  <2>1. /\ pc[p] = "config" /\ todo[p] = <<"chownConfig">>
        /\ config'.flag = config.flag /\ config'.readable /\ UNCHANGED sentinel
        /\ pc'[p] = Continue(cmd[p], "config") /\ todo'[p] = Ops(cmd[p], Continue(cmd[p], "config"))
    BY <1>1, <1>4, <1>8 DEF ChownsConfig, Undo, Entered
  <2>2. /\ GivesConfig(p) /\ ~GivesSentinel(p) /\ ~OwesConfig(p)
    BY <2>1, TodosDiffer DEF GivesConfig, GivesSentinel, OwesConfig
  <2>3. cmd[p].kind = "power" => LooksBack(p)' /\ ~OwesSentinel(p)'
    BY <1>1, <2>1 DEF LooksBack, OwesSentinel, Continue, Closing
  <2>4. cmd[p].kind = "setup" => OwesSentinel(p)' /\ OwesSentinel(p)
    <3>1. CASE cmd[p].kind = "setup"
      <4>1. pc'[p] = "sentinel" /\ todo'[p] = SentinelOps(cmd[p].enabled)
        BY <2>1, <3>1 DEF Continue, Ops
      <4>2. todo'[p] # <<"chownSentinel">>
        BY <1>4, <4>1, TodosDiffer
      <4>3. QED
        BY <1>1, <2>2, <3>1, <4>1, <4>2 DEF OwesSentinel, GivesSentinel
    <3>2. QED
      BY <3>1
  <2>5. cmd[p].kind = "upgrade" => ~LooksBack(p) /\ ~OwesSentinel(p) /\ ~OwesSentinel(p)'
    BY <1>1 DEF LooksBack, OwesSentinel
  <2>6. Owned'
    BY <1>3, <2>1, <2>2 DEF Consistent, Owned
  <2>7. Written'
    BY <1>1, <1>3, <1>6, <2>1, <2>3, <2>4, <2>5 DEF Consistent, Written, KindsOfCommand
  <2>8. Agreed'
    <3>1. Present' = Present
      BY <2>1 DEF Present
    <3>2. cmd[p].kind \in {"power", "upgrade"} => ~OwesSentinel(p)
      BY DEF OwesSentinel
    <3>3. LooksBack(p) => cmd[p].kind = "power"
      BY DEF LooksBack
    <3>4. QED
      BY <1>1, <1>3, <2>1, <2>2, <2>3, <2>4, <3>1, <3>2, <3>3
      DEF Consistent, Agreed, KindsOfCommand
  <2>9. QED
    BY <2>1, <2>6, <2>7, <2>8 DEF Consistent, Readable
<1>9. CASE ReplacesSentinel(p)
  <2>1. /\ pc[p] = "sentinel" /\ todo[p] = SentinelOps(TRUE) /\ cmd[p].enabled = TRUE
        /\ cmd[p].kind \in {"power", "setup"} /\ UNCHANGED config /\ sentinel' = "unowned"
        /\ pc'[p] = "sentinel" /\ todo'[p] = <<"chownSentinel">>
    BY <1>1, <1>4, <1>9 DEF ReplacesSentinel, Undo, KindsOfCommand, Wanted
  <2>2. GivesSentinel(p)' /\ ~GivesConfig(p) /\ ~OwesSentinel(p)'
    BY <1>1, <2>1 DEF GivesSentinel, GivesConfig, OwesSentinel
  <2>3. Present' = TRUE
    BY <2>1 DEF Present
  <2>4. Readable'
    BY <1>3, <2>1, <2>2 DEF Consistent, Readable
  <2>5. Written'
    BY <1>3, <1>6, <2>2 DEF Written
  <2>6. Agreed'
    <3>1. CASE cmd[p].kind = "power"
      <4>1. OwesConfig(p)' /\ cmd'[p].enabled = Present'
        BY <1>1, <2>1, <2>2, <2>3, <3>1 DEF OwesConfig
      <4>2. QED
        BY <4>1 DEF Agreed
    <3>2. CASE cmd[p].kind = "setup"
      <4>1. OwesSentinel(p)
        BY <2>1, <3>2, TodosDiffer DEF OwesSentinel, GivesSentinel
      <4>2. config'.flag = Present'
        BY <2>1, <2>3, <4>1 DEF Consistent, Written
      <4>3. QED
        BY <4>2 DEF Agreed
    <3>3. QED
      BY <2>1, <3>1, <3>2
  <2>7. QED
    BY <2>2, <2>4, <2>5, <2>6 DEF Consistent, Owned
<1>10. CASE ChownsSentinel(p)
  <2>1. /\ pc[p] = "sentinel" /\ todo[p] = <<"chownSentinel">> /\ UNCHANGED config
        /\ sentinel' = IF sentinel = "absent" THEN "absent" ELSE "owned"
        /\ pc'[p] = Continue(cmd[p], "sentinel")
        /\ todo'[p] = Ops(cmd[p], Continue(cmd[p], "sentinel"))
    BY <1>1, <1>10 DEF ChownsSentinel, Undo, Entered
  <2>2. ~GivesConfig(p) /\ ~LooksBack(p) /\ ~OwesSentinel(p)
    BY <2>1 DEF GivesConfig, LooksBack, OwesSentinel, GivesSentinel, Closing
  <2>3. OwesConfig(p) => OwesConfig(p)'
    BY <1>1, <2>1 DEF OwesConfig, Continue, Ops
  <2>4. ~OwesSentinel(p)'
    BY <1>1, <2>1 DEF OwesSentinel, GivesConfig, GivesSentinel, Continue
  <2>5. Present' = Present /\ sentinel' # "unowned"
    BY <2>1 DEF Present
  <2>6. Readable' /\ Written' /\ Owned'
    BY <1>3, <1>6, <2>1, <2>2, <2>4, <2>5 DEF Consistent, Readable, Written, Owned
  <2>7. Agreed'
    BY <1>1, <1>3, <2>1, <2>2, <2>3, <2>5 DEF Consistent, Agreed
  <2>8. QED
    BY <2>6, <2>7 DEF Consistent
<1>11. CASE RemovesSentinel(p)
  <2>1. /\ pc[p] = "sentinel" /\ todo[p] = SentinelOps(FALSE) /\ cmd[p].enabled = FALSE
        /\ cmd[p].kind \in {"power", "setup"} /\ UNCHANGED config /\ sentinel' = "absent"
        /\ pc'[p] = Continue(cmd[p], "sentinel")
        /\ todo'[p] = Ops(cmd[p], Continue(cmd[p], "sentinel"))
    BY <1>1, <1>4, <1>11 DEF RemovesSentinel, Undo, KindsOfCommand, Wanted, Entered
  <2>2. ~GivesConfig(p) /\ ~OwesSentinel(p)'
    BY <1>1, <2>1 DEF GivesSentinel, GivesConfig, OwesSentinel, Continue
  <2>3. Present' = FALSE
    BY <2>1 DEF Present
  <2>4. Readable'
    BY <1>3, <2>1, <2>2 DEF Consistent, Readable
  <2>5. Written'
    BY <1>3, <1>6, <2>2 DEF Written
  <2>6. Agreed'
    <3>1. CASE cmd[p].kind = "power"
      <4>1. OwesConfig(p)' /\ cmd'[p].enabled = Present'
        BY <1>1, <2>1, <2>3, <3>1 DEF OwesConfig, Continue, Ops
      <4>2. QED
        BY <4>1 DEF Agreed
    <3>2. CASE cmd[p].kind = "setup"
      <4>1. OwesSentinel(p)
        BY <2>1, <3>2, TodosDiffer DEF OwesSentinel, GivesSentinel
      <4>2. config'.flag = Present'
        BY <2>1, <2>3, <4>1 DEF Consistent, Written
      <4>3. QED
        BY <4>2 DEF Agreed
    <3>3. QED
      BY <2>1, <3>1, <3>2
  <2>7. QED
    BY <2>1, <2>4, <2>5, <2>6 DEF Consistent, Owned
<1>12. QED
  BY <1>7, <1>8, <1>9, <1>10, <1>11, FileStepCases

\* The other steps write no file, and only a power command that has looked back stops
\* being of those that will.
LEMMA OtherStepConsistent ==
  ASSUME TypeOK, AloneRuns, ~Trouble, Consistent, NEW p \in Commands, Step(p), ~Trouble',
         ~FileStep(p)
  PROVE  Consistent'
<1>1. TypeOK' /\ Moved(p) /\ ~Troubled(p)'
  BY StepMoves DEF Trouble
<1>2. \A q \in Commands : q # p => pc'[q] = pc[q] /\ cmd'[q] = cmd[q] /\ todo'[q] = todo[q]
  BY <1>1 DEF Moved
<1>3. /\ Running(p) /\ cmd'[p].kind = cmd[p].kind /\ cmd'[p].enabled = cmd[p].enabled
      /\ cmd[p] \in CmdRecords /\ cmd[p].kind \in KindsOfCommand
      /\ pc[p] \in PhasesOf(cmd[p].kind)
  BY <1>1, RunningPart DEF Moved
<1>4. pc'[p] \notin Undo \cup {"failed", "killed"}
  BY <1>1 DEF Troubled
<1>5. \/ CheckHelper(p) \/ ReadBody(p) \/ Ask(p) \/ OpenStore(p)
      \/ Restart(p) \/ IsActive(p) \/ Verify(p)
  <2>1. ~FileFails(p)
    BY <1>4, FileFailsMoves
  <2>2. ~StepFails(p) /\ ~Kill(p)
    <3>1. {"failed", "killed"} \subseteq PhasesOf(cmd[p].kind)
      BY <1>3, RunningPart
    <3>2. QED
      BY <1>3, <1>4, <3>1, EnterPart DEF StepFails, Kill
  <2>3. QED
    BY <2>1, <2>2 DEF Step
<1>6. UNCHANGED <<config, sentinel>>
  BY <1>5 DEF CheckHelper, ReadBody, Ask, OpenStore, Restart, IsActive, Verify
<1>7. pc[p] \in {"check", "read", "ask", "store", "restart", "active", "verify"}
  BY <1>5 DEF CheckHelper, ReadBody, Ask, OpenStore, Restart, IsActive, Verify
<1>8. ~GivesConfig(p) /\ ~GivesSentinel(p) /\ ~OwesConfig(p) /\ ~OwesSentinel(p)
  BY <1>7 DEF GivesConfig, GivesSentinel, OwesConfig, OwesSentinel
<1>9. \A q \in Commands : q # p =>
         /\ GivesConfig(q)' <=> GivesConfig(q)
         /\ GivesSentinel(q)' <=> GivesSentinel(q)
         /\ OwesConfig(q)' <=> OwesConfig(q)
         /\ LooksBack(q)' <=> LooksBack(q)
         /\ OwesSentinel(q)' <=> OwesSentinel(q)
         /\ cmd'[q].enabled = cmd[q].enabled
  BY <1>2, OthersKept
<1>10. Readable' /\ Owned'
  BY <1>6, <1>8, <1>9 DEF Consistent, Readable, Owned
<1>11. ~OwesSentinel(p)'
  <2>1. CASE cmd[p].kind = "setup"
    <3>1. Ask(p) \/ OpenStore(p) \/ Restart(p) \/ IsActive(p)
      BY <1>3, <1>5, <2>1 DEF CheckHelper, ReadBody, Verify, PhasesOf, Ended
    <3>2. CASE Ask(p)
      <4>1. "config" \in PhasesOf(cmd[p].kind) /\ Ops(cmd[p], "config") = ConfigOps
        BY <2>1 DEF PhasesOf, Ops
      <4>2. pc'[p] = "config" /\ todo'[p] = ConfigOps
        BY <1>3, <3>2, <4>1, EnterPart DEF Ask
      <4>3. QED
        BY <4>2, TodosDiffer DEF OwesSentinel, GivesConfig
    <3>3. CASE OpenStore(p) \/ Restart(p) \/ IsActive(p)
      <4>1. \E phase \in {"restart", "passed", "active", "failed"} : Enter(p, cmd[p], phase)
        BY <2>1, <3>3 DEF OpenStore, Restart, IsActive
      <4>2. {"restart", "passed", "active", "failed"} \subseteq PhasesOf(cmd[p].kind)
        BY DEF PhasesOf, Ended
      <4>3. pc'[p] \in {"restart", "passed", "active", "failed"}
        BY <1>3, <4>1, <4>2, EnterPart
      <4>4. QED
        BY <4>3 DEF OwesSentinel, GivesConfig, GivesSentinel
    <3>4. QED
      BY <3>1, <3>2, <3>3
  <2>2. QED
    BY <1>3, <2>1 DEF OwesSentinel
<1>12. Written'
  BY <1>6, <1>9, <1>11 DEF Consistent, Written
<1>13. Agreed'
  <2>1. Present' = Present
    BY <1>6 DEF Present
  <2>2. LooksBack(p) => LooksBack(p)' \/ Verify(p)
    <3> SUFFICES ASSUME LooksBack(p), ~Verify(p) PROVE LooksBack(p)'
      OBVIOUS
    <3>1. cmd[p].kind = "power" /\ pc[p] \in Closing
      BY <1>8 DEF LooksBack
    <3>2. Restart(p) \/ IsActive(p)
      BY <1>5, <3>1 DEF CheckHelper, ReadBody, Ask, OpenStore, Closing
    <3>3. \E phase \in {"active", "verify", "failed"} : Enter(p, cmd[p], phase)
      BY <3>1, <3>2 DEF Restart, IsActive
    <3>4. {"active", "verify", "failed"} \subseteq PhasesOf(cmd[p].kind)
      BY <3>1 DEF PhasesOf, Ended
    <3>5. pc'[p] \in {"active", "verify", "failed"}
      BY <1>3, <3>3, <3>4, EnterPart
    <3>6. QED
      BY <1>3, <1>4, <3>1, <3>5 DEF LooksBack, Closing
  <2>3. CASE config.flag = Present
    BY <1>6, <2>1, <2>3 DEF Agreed
  <2>4. CASE \E q \in Commands : OwesConfig(q) /\ cmd[q].enabled = Present
    BY <1>8, <1>9, <2>1, <2>4 DEF Agreed
  <2>5. CASE \E q \in Commands : OwesSentinel(q)
    BY <1>8, <1>9, <2>5 DEF Agreed
  <2>6. CASE \E q \in Commands : LooksBack(q) /\ cmd[q].enabled = config.flag
    <3>1. PICK q \in Commands : LooksBack(q) /\ cmd[q].enabled = config.flag
      BY <2>6
    <3>2. CASE q # p \/ LooksBack(p)'
      BY <1>3, <1>6, <1>9, <3>1, <3>2 DEF Agreed
    <3>3. CASE q = p /\ Verify(p)
      <4>1. cmd[p].kind = "power" /\ cmd[p].enabled = config.flag
        BY <3>1, <3>3 DEF LooksBack
      <4>2. Effective = cmd[p].enabled
        <5>1. Enter(p, cmd[p], IF Effective = cmd[p].enabled THEN "passed" ELSE "failed")
          BY <3>3 DEF Verify
        <5>2. {"passed", "failed"} \subseteq PhasesOf(cmd[p].kind)
          BY DEF PhasesOf, Ended
        <5>3. pc'[p] = IF Effective = cmd[p].enabled THEN "passed" ELSE "failed"
          BY <1>3, <5>1, <5>2, EnterPart
        <5>4. QED
          BY <1>4, <5>3
      <4>3. CASE sentinel # "unowned"
        <5>1. Effective = Present
          BY <4>3 DEF Effective, Present, TypeOK
        <5>2. QED
          BY <2>3, <4>1, <4>2, <5>1
      <4>4. CASE sentinel = "unowned"
        <5>1. PICK r \in Commands : GivesSentinel(r)
          BY <4>4 DEF Consistent, Owned
        <5>2. Running(r) /\ pc[r] = "sentinel" /\ cmd[r].kind # "upgrade"
              /\ todo[r] = <<"chownSentinel">> /\ r # p
          BY <1>8, <5>1, OwesRuns DEF GivesSentinel
        <5>3. cmd[r].kind = "power"
          BY <1>3, <5>2, SetupIsAlone, RunningPart DEF KindsOfCommand
        <5>4. Wanted(r)
          BY <5>2, LeftInSentinel, TodosDiffer
        <5>5. OwesConfig(r) /\ cmd[r].enabled = Present
          <6>1. cmd[r].enabled \in BOOLEAN
            BY <5>2, RunningPart DEF CmdRecords
          <6>2. QED
            BY <4>4, <5>1, <5>2, <5>3, <5>4, <6>1 DEF OwesConfig, Wanted, Present
        <5>6. QED
          BY <2>4, <5>5
      <4>5. QED
        BY <4>3, <4>4
    <3>4. QED
      BY <2>2, <3>1, <3>2, <3>3
  <2>7. QED
    BY <2>3, <2>4, <2>5, <2>6 DEF Consistent, Agreed
<1>14. QED
  BY <1>10, <1>12, <1>13 DEF Consistent

\* A command that starts takes over what the files are.
LEMMA StartConsistent ==
  ASSUME TypeOK, AloneRuns, ~Trouble, Consistent, NEW p \in Commands, Start(p)
  PROVE  Consistent'
<1>1. /\ pc[p] = "idle" /\ pc'[p] \in {"check", "ask", "config"}
      /\ pc'[p] = "config" => cmd'[p].kind = "upgrade"
      /\ UNCHANGED <<config, sentinel>>
  BY StartPart
<1>2. \A q \in Commands : q # p => pc'[q] = pc[q] /\ cmd'[q] = cmd[q] /\ todo'[q] = todo[q]
  BY StartPart
<1>3. \A q \in Commands : q # p =>
         /\ GivesConfig(q)' <=> GivesConfig(q)
         /\ GivesSentinel(q)' <=> GivesSentinel(q)
         /\ OwesConfig(q)' <=> OwesConfig(q)
         /\ LooksBack(q)' <=> LooksBack(q)
         /\ OwesSentinel(q)' <=> OwesSentinel(q)
         /\ cmd'[q].enabled = cmd[q].enabled
  BY <1>2, OthersKept
<1>4. /\ ~GivesConfig(p) /\ ~GivesSentinel(p) /\ ~OwesConfig(p) /\ ~LooksBack(p)
      /\ ~OwesSentinel(p) /\ ~OwesSentinel(p)'
  BY <1>1 DEF GivesConfig, GivesSentinel, OwesConfig, LooksBack, OwesSentinel, Closing
<1>5. Present' = Present
  BY <1>1 DEF Present
<1>6. QED
  BY <1>1, <1>3, <1>4, <1>5 DEF Consistent, Readable, Owned, Agreed, Written

\* The files stay sound, or somebody is in trouble.
LEMMA SoundStep ==
  ASSUME TypeOK, AloneRuns, Sound, [Next]_vars
  PROVE  Sound'
<1> SUFFICES ASSUME ~Trouble' PROVE Consistent'
  BY DEF Sound, Consistent
<1>1. ~Trouble /\ Consistent
  BY TroubleStays DEF Sound, Consistent
<1>2. CASE \E p \in Commands : Start(p)
  BY <1>1, <1>2, StartConsistent
<1>3. CASE \E p \in Commands : Step(p)
  BY <1>1, <1>3, FileStepConsistent, OtherStepConsistent
<1>4. CASE AgentStep \/ UNCHANGED vars
  <2>1. UNCHANGED <<config, sentinel, pc, cmd, todo>>
    BY <1>4, AgentPart DEF vars
  <2>2. QED
    BY <1>1, <2>1 DEF Consistent, Readable, Owned, Agreed, Written, Present, GivesConfig,
                      GivesSentinel, OwesConfig, LooksBack, OwesSentinel
<1>5. QED
  BY <1>2, <1>3, <1>4, NextPart

\* Every step keeps the types.
LEMMA TypeStep ==
  ASSUME TypeOK, [Next]_vars
  PROVE  TypeOK'
<1>1. CASE UNCHANGED vars
  BY <1>1 DEF vars, TypeOK
<1>2. QED
  BY <1>1, NextPart, StartPart, StepMoves, AgentPart

\* At first the files agree and nobody runs.
LEMMA InitIInv == Init => IInv
<1> SUFFICES ASSUME Init PROVE IInv
  OBVIOUS
<1>1. PICK on \in BOOLEAN :
        /\ config = [flag |-> on, readable |-> TRUE]
        /\ sentinel = IF on THEN "owned" ELSE "absent"
        /\ agent = IF on THEN "on" ELSE "off"
  BY DEF Init
<1>2. /\ \A p \in Commands : pc[p] = "idle" /\ cmd[p] = NoCommand /\ todo[p] = <<>>
      /\ NoCommand \in CmdRecords
  BY DEF Init, NoCommand, CmdRecords
<1>3. TypeOK
  BY <1>1, <1>2 DEF Init, TypeOK, Todos
<1>4. AloneRuns /\ Undisturbed
  BY <1>2 DEF AloneRuns, Undisturbed, Running
<1>5. Readable /\ Owned /\ Agreed
  <2>1. config.readable /\ sentinel # "unowned" /\ config.flag = Present
    BY <1>1 DEF Present
  <2>2. QED
    BY <2>1 DEF Readable, Owned, Agreed
<1>6. Written
  BY <1>2 DEF Written, OwesSentinel, GivesConfig
<1>7. QED
  BY <1>3, <1>4, <1>5, <1>6 DEF IInv, Sound

\* Every step keeps the invariant.
LEMMA NextIInv == IInv /\ [Next]_vars => IInv'
  BY TypeStep, AloneStep, UndisturbedStep, SoundStep DEF IInv

-----------------------------------------------------------------------------
\* The conjunction is inductive, for any set of commands and any number of failures.
THEOREM Inductive == Spec => []IInv
  BY InitIInv, NextIInv, PTL DEF Spec

\* When no command is left and the files disagree, or the agent cannot read its own, a
\* command failed or was killed, or a setup ran beside another command: commands that
\* all print PASS cannot do it together, however their file operations interleave.
THEOREM NoSilentDamage == Spec => []DamageIsReported
<1>1. IInv => DamageIsReported
  <2> SUFFICES ASSUME IInv, Quiet, config.flag # Effective \/ ~config.readable
               PROVE  \E p \in Commands :
                        \/ Went(p, {"failed", "killed"})
                        \/ Went(p, {"passed"}) /\ cmd[p].kind = "setup" /\ ~alone[p]
    BY DEF DamageIsReported
  <2>1. CASE Trouble
    <3>1. PICK p \in Commands : Troubled(p)
      BY <2>1 DEF Trouble
    <3>2. pc[p] \in Ended \cup {"idle"}
      BY DEF Quiet, Running
    <3>3. QED
      BY <3>1, <3>2 DEF Troubled, Went, Undo, Ended
  <2>2. CASE ~Trouble
    <3>1. Readable /\ Owned /\ Agreed
      BY <2>2 DEF IInv, Sound
    <3>2. \A p \in Commands : /\ ~GivesConfig(p) /\ ~GivesSentinel(p) /\ ~OwesConfig(p)
                              /\ ~LooksBack(p) /\ ~OwesSentinel(p)
      BY DEF Quiet, Running, GivesConfig, GivesSentinel, OwesConfig, LooksBack, OwesSentinel,
             Closing, Ended
    <3>3. config.readable /\ sentinel # "unowned" /\ config.flag = Present
      BY <3>1, <3>2 DEF Readable, Owned, Agreed
    <3>4. Effective = Present
      BY <3>3 DEF Effective, Present, IInv, TypeOK
    <3>5. QED
      BY <3>3, <3>4
  <2>3. QED
    BY <2>1, <2>2
<1>2. QED
  BY <1>1, Inductive, PTL

\* An undisturbed power command that prints PASS has made the files, the helper and a
\* running agent say what was asked.
THEOREM PassCanBeTrusted == Spec => PassIsTrue
<1>1. IInv /\ [Next]_vars =>
        [\A p \in Commands :
           /\ pc[p] # "passed" /\ pc'[p] = "passed"
           /\ cmd[p].kind = "power" /\ alone[p]
           => /\ config.readable
              /\ config.flag = cmd[p].enabled
              /\ Effective = cmd[p].enabled
              /\ agent \in {"down", IF cmd[p].enabled THEN "on" ELSE "off"}]_vars
  <2> SUFFICES ASSUME IInv, [Next]_vars, NEW p \in Commands, pc[p] # "passed", pc'[p] = "passed",
                      cmd[p].kind = "power", alone[p]
               PROVE  /\ config.readable
                      /\ config.flag = cmd[p].enabled
                      /\ Effective = cmd[p].enabled
                      /\ agent \in {"down", IF cmd[p].enabled THEN "on" ELSE "off"}
    OBVIOUS
  <2>1. TypeOK
    BY DEF IInv
  <2>2. Step(p)
    <3>1. CASE \E q \in Commands : Start(q)
      <4>1. PICK q \in Commands : Start(q)
        BY <3>1
      <4>2. pc'[q] # "passed" /\ (p # q => pc'[p] = pc[p])
        BY <2>1, <4>1, StartPart
      <4>3. QED
        BY <4>2
    <3>2. CASE \E q \in Commands : Step(q)
      <4>1. PICK q \in Commands : Step(q)
        BY <3>2
      <4>2. p # q => pc'[p] = pc[p]
        BY <2>1, <4>1, StepMoves DEF Moved
      <4>3. QED
        BY <4>1, <4>2
    <3>3. CASE AgentStep \/ UNCHANGED vars
      BY <2>1, <3>3, AgentPart DEF vars
    <3>4. QED
      BY <3>1, <3>2, <3>3, NextPart
  <2>3. /\ Running(p) /\ cmd[p] \in CmdRecords /\ pc[p] \in PhasesOf("power")
        /\ PhasesOf(cmd[p].kind) = PhasesOf("power") /\ cmd[p].kind \in KindsOfCommand
    BY <2>1, <2>2, StepMoves, RunningPart DEF Moved
  <2>4. Verify(p) /\ Effective = cmd[p].enabled
    <3>1. ~FileStep(p)
      <4> SUFFICES ASSUME FileStep(p) PROVE FALSE
        OBVIOUS
      <4>1. /\ pc'[p] \in {pc[p], Continue(cmd[p], pc[p])}
            /\ pc[p] \in FilePhases
        BY <2>1, FileStepCases
        DEF ReplacesConfig, ChownsConfig, ReplacesSentinel, ChownsSentinel, RemovesSentinel,
            Entered, FilePhases
      <4>2. QED
        BY <4>1 DEF Continue, FilePhases
    <3>2. ~FileFails(p)
      BY <2>1, FileFailsMoves DEF Undo
    <3>3. PICK c \in CmdRecords, phase \in PhasesOf("power") :
            /\ Enter(p, c, phase) /\ c.kind = "power"
            /\ \/ Verify(p) /\ phase = (IF Effective = cmd[p].enabled THEN "passed" ELSE "failed")
               \/ phase # "passed"
      <4>1. CASE CheckHelper(p)
        <5> DEFINE c == [cmd[p] EXCEPT !.helper = Effective]
        <5>1. c \in CmdRecords /\ c.kind = "power"
          BY <2>3 DEF CmdRecords, Effective
        <5>2. Enter(p, c, IF MustWrite(c) THEN "read" ELSE "restart")
          BY <4>1 DEF CheckHelper
        <5> HIDE DEF c
        <5>3. QED
          BY <5>1, <5>2 DEF PhasesOf
      <4>2. CASE ReadBody(p)
        <5> DEFINE c == [cmd[p] EXCEPT !.original = config.flag]
        <5>1. c \in CmdRecords /\ c.kind = "power"
          BY <2>1, <2>3 DEF CmdRecords, TypeOK
        <5>2. Enter(p, c, "sentinel")
          BY <4>2 DEF ReadBody
        <5> HIDE DEF c
        <5>3. QED
          BY <5>1, <5>2 DEF PhasesOf
      <4>3. CASE Ask(p) \/ OpenStore(p)
        BY <2>3, <4>3 DEF Ask, OpenStore, PhasesOf, Ended, Undo
      <4>4. CASE Restart(p)
        BY <2>3, <4>4 DEF Restart, PhasesOf
      <4>5. CASE IsActive(p)
        <5>1. Enter(p, cmd[p], IF agent = "down" THEN "failed" ELSE "verify")
          BY <4>5 DEF IsActive
        <5>2. QED
          BY <2>3, <5>1 DEF PhasesOf, Ended
      <4>6. CASE Verify(p)
        BY <2>3, <4>6 DEF Verify, PhasesOf, Ended
      <4>7. CASE StepFails(p) \/ Kill(p)
        BY <2>3, <4>7 DEF StepFails, Kill, PhasesOf, Ended
      <4>8. QED
        BY <2>2, <3>1, <3>2, <4>1, <4>2, <4>3, <4>4, <4>5, <4>6, <4>7 DEF Step
    <3>4. pc'[p] = phase
      BY <2>1, <3>3, EnterPart DEF KindsOfCommand
    <3>5. QED
      BY <3>3, <3>4
  <2>5. pc[p] = "verify" /\ Progress(p)
    BY <2>3, <2>4 DEF Verify, IInv, Undisturbed
  <2>6. config.readable /\ config.flag = cmd[p].enabled /\ agent \in {"down", Started}
    BY <2>5 DEF Progress, Closing
  <2>7. QED
    BY <2>4, <2>6 DEF Started
<1>2. QED
  BY <1>1, Inductive, PTL DEF Spec, PassIsTrue

\* An undisturbed power command whose way back succeeds leaves agent.toml and the helper
\* as it found them, wherever it had to turn back.
THEOREM RollbackIsComplete == Spec => RollbackRestores
<1>1. IInv /\ [Next]_vars =>
        [\A p \in Commands :
           /\ pc[p] \in FilePhases /\ pc'[p] = "failed"
           /\ cmd[p].kind = "power" /\ cmd'[p].clean /\ alone[p]
           => /\ config'.flag = cmd[p].flag
              /\ (sentinel' = "owned") = cmd[p].helper]_vars
  <2> SUFFICES ASSUME IInv, [Next]_vars, NEW p \in Commands,
                      pc[p] \in FilePhases, pc'[p] = "failed",
                      cmd[p].kind = "power", cmd'[p].clean, alone[p]
               PROVE  /\ config'.flag = cmd[p].flag
                      /\ (sentinel' = "owned") = cmd[p].helper
    OBVIOUS
  <2>1. TypeOK /\ pc[p] # "failed" /\ Running(p)
    BY DEF IInv, FilePhases, Running, Ended
  <2>2. Step(p)
    <3>1. CASE \E q \in Commands : Start(q)
      <4>1. PICK q \in Commands : Start(q)
        BY <3>1
      <4>2. pc'[q] # "failed" /\ (p # q => pc'[p] = pc[p])
        BY <2>1, <4>1, StartPart
      <4>3. QED
        BY <2>1, <4>2
    <3>2. CASE \E q \in Commands : Step(q)
      <4>1. PICK q \in Commands : Step(q)
        BY <3>2
      <4>2. p # q => pc'[p] = pc[p]
        BY <2>1, <4>1, StepMoves DEF Moved
      <4>3. QED
        BY <2>1, <4>1, <4>2
    <3>3. CASE AgentStep \/ UNCHANGED vars
      BY <2>1, <3>3, AgentPart DEF vars
    <3>4. QED
      BY <3>1, <3>2, <3>3, NextPart
  <2>3. cmd[p] \in CmdRecords /\ cmd[p].helper \in BOOLEAN /\ cmd[p].kind \in KindsOfCommand
        /\ pc[p] \in PhasesOf(cmd[p].kind) \cap FilePhases
    BY <2>1, FilePart, RunningPart DEF CmdRecords
  <2>4. FileStep(p)
    <3>1. ~FileFails(p)
      <4> SUFFICES ASSUME FileFails(p) PROVE FALSE
        OBVIOUS
      <4> DEFINE undo == pc[p] \in Undo
                 d == [cmd[p] EXCEPT !.clean = @ /\ ~undo]
      <4>1. d \in CmdRecords /\ d.kind = "power"
        BY <2>3 DEF CmdRecords
      <4>2. undo => ~d.clean
        BY <2>3 DEF CmdRecords
      <4>3. Enter(p, d, GiveWay(d, pc[p]))
        BY DEF FileFails, Undo
      <4> HIDE DEF d
      <4>4. GiveWay(d, pc[p]) \in PhasesOf(d.kind)
        BY <2>3, <4>1, RoutePart
      <4>5. pc'[p] = GiveWay(d, pc[p]) /\ cmd'[p] = d
        BY <2>1, <4>1, <4>3, <4>4, EnterPart DEF KindsOfCommand
      <4>6. pc[p] \in Undo
        BY <4>1, <4>5 DEF GiveWay, FilePhases, Undo
      <4>7. QED
        BY <4>2, <4>5, <4>6
    <3>2. ~StepFails(p)
      BY DEF StepFails
    <3>3. ~Kill(p)
      <4>1. "killed" \in PhasesOf(cmd[p].kind)
        BY DEF PhasesOf, Ended
      <4>2. QED
        BY <2>1, <2>3, <4>1, EnterPart DEF Kill
    <3>4. QED
      BY <2>2, <3>1, <3>2, <3>3 DEF Step, FilePhases, CheckHelper, ReadBody, Ask, OpenStore,
                                    Restart, IsActive, Verify
  <2>5. /\ cmd'[p] = cmd[p]
        /\ \/ ReplacesConfig(p) \/ ChownsConfig(p)
           \/ ReplacesSentinel(p) \/ ChownsSentinel(p) \/ RemovesSentinel(p)
    BY <2>1, <2>4, FileStepCases
  <2>6. ~ReplacesConfig(p) /\ ~ReplacesSentinel(p)
    BY <2>1 DEF ReplacesConfig, ReplacesSentinel
  <2>7. ~ChownsConfig(p)
    BY DEF ChownsConfig, Entered, Continue
  <2>8. pc[p] = "undoSentinel" /\ config' = config
    BY <2>5, <2>6, <2>7 DEF ChownsSentinel, RemovesSentinel, Entered, Continue
  <2>9. config.flag = cmd[p].flag
    <3>1. Progress(p)
      BY <2>1 DEF IInv, Undisturbed
    <3>2. QED
      BY <2>5, <2>8, <3>1 DEF Progress
  <2>10. (sentinel' = "owned") = cmd[p].helper
    <3>1. CASE ChownsSentinel(p)
      <4>1. cmd[p].helper = TRUE /\ sentinel' = "owned"
        BY <2>3, <2>8, <3>1 DEF ChownsSentinel, Wanted
      <4>2. QED
        BY <4>1
    <3>2. CASE RemovesSentinel(p)
      <4>1. cmd[p].helper = FALSE /\ sentinel' # "owned"
        BY <2>3, <2>8, <3>2 DEF RemovesSentinel, Wanted
      <4>2. QED
        BY <4>1
    <3>3. QED
      BY <2>5, <2>6, <2>7, <3>1, <3>2
  <2>11. QED
    BY <2>8, <2>9, <2>10
<1>2. QED
  BY <1>1, Inductive, PTL DEF Spec, RollbackRestores
=============================================================================
