---------------------------- MODULE MachineHolds ----------------------------
(***************************************************************************)
(* What the server holds on the machine between calls: the freeze set the  *)
(* sweeper writes back about twenty times a second, and the pads with the  *)
(* ledger of the buttons it has commanded. Calls change both under the     *)
(* serialized scheduler; the sweeper writes past it; a cartridge load or a *)
(* reset replaces the program underneath.                                  *)
(***************************************************************************)
EXTENDS Integers, FiniteSets, Sequences, SequencesExt

CONSTANTS Caller, Cell, Datum, Button, Nothing,
          Plan,       \* the button of each step of an input_sequence
          MaxFreezes, \* freezeMaxEntries
          MaxHoldCalls,   \* bound: calls started
          MaxLoads,   \* bound: programs loaded
          MaxHoldFaults   \* bound: failed native commands

ASSUME HoldsAssumption ==
  /\ Nothing \notin Caller
  /\ Plan \subseteq Seq(Button) /\ \A plan \in Plan : plan # <<>>
  /\ MaxFreezes \in Nat /\ MaxHoldCalls \in Nat /\ MaxLoads \in Nat /\ MaxHoldFaults \in Nat

VARIABLES freezes,    \* freezeRegistry: the entries in the order they were made
          issued,     \* freezeRegistry.nextID
          sweep,      \* the entries the sweeper has copied and not yet written
          memory, program, pads, \* the emulated machine
          ledger,     \* inputLedger of the port, or Nothing
          revision,   \* the target generation
          scheduler,  \* schedulerMu
          control,    \* whose control lock an input_sequence holds
          doing,      \* what each caller is doing
          begun, holdFaults,
          left        \* history: buttons a sequence left down with every release answered

machineVars == <<memory, program, pads>>
freezeVars  == <<freezes, issued>>
holdVars    == <<freezes, issued, sweep, memory, program, pads, ledger, revision, scheduler,
                 control, doing, begun, holdFaults, left>>

Erased == 0  \* what the program writes over a frozen cell

Resting == [op |-> "idle", at |-> "idle", cell |-> Nothing, datum |-> Nothing, id |-> 0,
            buttons |-> {}, down |-> FALSE, steps |-> <<>>, phase |-> "press",
            tried |-> {}, held |-> {}, clean |-> TRUE]

\* The operations, those with a native command, and those that touch the pads.
Local   == {"unfreeze", "clear"}
Loads   == {"load", "hard"}
InputOp == {"input", "sequence"}
Op      == {"freeze", "soft"} \cup Local \cup Loads \cup InputOp

Entry == [id : Nat, cell : Cell, datum : Datum, program : Nat]

HoldCall == [op : Op \cup {"idle"}, at : {"idle", "wait", "native", "commit", "after", "record"},
             cell : Cell \cup {Nothing}, datum : Datum \cup {Nothing}, id : Nat,
             buttons : SUBSET Button, down : BOOLEAN, steps : Seq(Button),
             phase : {"press", "advance", "release", "unwind"}, tried : SUBSET Button,
             held : SUBSET Button, clean : BOOLEAN]

HoldsTypeOK ==
  /\ freezes \in Seq(Entry) /\ sweep \in Seq(Entry)
  /\ memory \in [Cell -> Datum \cup {Erased}] /\ program \in 0..MaxLoads /\ pads \subseteq Button
  /\ ledger = Nothing \/ ledger \in [buttons : SUBSET Button, revision : Nat]
  /\ scheduler \in Caller \cup {Nothing} /\ control \in Caller \cup {Nothing}
  /\ doing \in [Caller -> HoldCall]

HoldsInit ==
  /\ freezes = <<>> /\ issued = 0 /\ sweep = <<>>
  /\ memory = [c \in Cell |-> Erased] /\ program = 0 /\ pads = {}
  /\ ledger = Nothing /\ revision = 0 /\ scheduler = Nothing /\ control = Nothing
  /\ doing = [c \in Caller |-> Resting] /\ begun = 0 /\ holdFaults = 0
  /\ left = {}

----------------------------------------------------------------------------
\* The freeze set.

FreezesAt(cell) == {i \in DOMAIN freezes : freezes[i].cell = cell}

\* Mutant of HasRoom: a full set takes one more entry.
HasRoomOffByOne(cell) == FreezesAt(cell) # {} \/ Len(freezes) <= MaxFreezes

\* memory_freeze's precondition: an entry to replace, or room for a new one.
HasRoom(cell) == FreezesAt(cell) # {} \/ Len(freezes) < MaxFreezes

\* set: the bytes of an entry are replaced in place, under its id; a new entry
\* takes the next id at the end of the listing.
SetFreeze(cell, datum) ==
  IF FreezesAt(cell) # {}
  THEN /\ \E i \in FreezesAt(cell) :
            freezes' = [freezes EXCEPT ![i] = [@ EXCEPT !.datum = datum, !.program = program]]
       /\ UNCHANGED issued
  ELSE /\ issued' = issued + 1
       /\ freezes' = Append(freezes, [id |-> issued + 1, cell |-> cell, datum |-> datum,
                                      program |-> program])

RemoveFreeze(id) ==
  \E i \in DOMAIN freezes : freezes[i].id = id /\ freezes' = RemoveAt(freezes, i)

\* Mutant of CopyFreezes: the sweeper waits for the scheduler, and for whoever holds it.
CopyFreezesIdle ==
  /\ sweep = <<>> /\ freezes # <<>> /\ scheduler = Nothing
  /\ sweep' = freezes
  /\ UNCHANGED <<freezeVars, machineVars, ledger, revision, scheduler, control, doing, begun,
                 holdFaults, left>>

\* The sweeper copies the set, then writes one entry per turn of the pipe. It takes
\* neither the scheduler nor the lock, and does not look at the set again.
CopyFreezes ==
  /\ sweep = <<>> /\ freezes # <<>>
  /\ sweep' = freezes
  /\ UNCHANGED <<freezeVars, machineVars, ledger, revision, scheduler, control, doing, begun,
                 holdFaults, left>>

WriteFreeze ==
  /\ sweep # <<>>
  /\ sweep' = Tail(sweep)
  /\ \/ /\ memory' = [memory EXCEPT ![Head(sweep).cell] = Head(sweep).datum]
        /\ UNCHANGED holdFaults
     \/ /\ holdFaults < MaxHoldFaults /\ holdFaults' = holdFaults + 1
        /\ UNCHANGED memory
  /\ UNCHANGED <<freezeVars, program, pads, ledger, revision, scheduler, control, doing, begun,
                 left>>

\* The emulated program updates a cell itself.
Emulate(cell) ==
  /\ memory[cell] # Erased
  /\ memory' = [memory EXCEPT ![cell] = Erased]
  /\ UNCHANGED <<freezeVars, sweep, program, pads, ledger, revision, scheduler, control, doing,
                 begun, holdFaults, left>>

----------------------------------------------------------------------------
\* The pads and their ledger.

\* recordInputCommand's fold, from the buttons it read before.
Fold(held, buttons, down) == IF down THEN held \cup buttons ELSE held \ buttons

Commanded == IF ledger = Nothing THEN {} ELSE ledger.buttons

\* The native effect of one command.
Effect(call) ==
  /\ memory' = CASE call.op = "freeze" -> [memory EXCEPT ![call.cell] = call.datum]
                 [] call.op \in Loads -> [c \in Cell |-> Erased]
                 [] OTHER -> memory
  /\ program' = IF call.op \in Loads THEN program + 1 ELSE program
  /\ pads' = CASE call.op \in Loads -> {}
               [] call.op = "input" -> Fold(pads, call.buttons, call.down)
               [] call.op = "sequence" /\ call.phase = "press" -> pads \cup {Head(call.steps)}
               [] call.op = "sequence" /\ call.phase \in {"release", "unwind"} -> pads \ {Head(call.steps)}
               [] OTHER -> pads

----------------------------------------------------------------------------
\* A call: begin, enter the scheduler, command the plugin, commit, and what the
\* tool does after the scheduler.

Begin(c, call) ==
  /\ doing[c] = Resting /\ begun < MaxHoldCalls /\ begun' = begun + 1
  /\ call.op \in Loads =>
       program + Cardinality({other \in Caller : doing[other].op \in Loads}) < MaxLoads
  /\ call.op = "sequence" => control = Nothing
  /\ control' = IF call.op = "sequence" THEN c ELSE control
  /\ doing' = [doing EXCEPT ![c] = [call EXCEPT !.at = "wait"]]
  /\ UNCHANGED <<freezeVars, sweep, machineVars, ledger, revision, scheduler, holdFaults, left>>

\* The call returns; a sequence releases the lock it took. tried is a history: the
\* buttons of the steps whose press has been answered.
Return(c) ==
  /\ doing' = [doing EXCEPT ![c] = Resting]
  /\ control' = IF control = c THEN Nothing ELSE control
  /\ left' = IF /\ doing[c].op = "sequence" /\ doing[c].clean
                /\ doing[c].at = "native" => doing[c].phase = "advance"
             THEN left \cup (pads \cap doing[c].tried) ELSE left

\* Mutant of Unwind: a failed frame_advance is returned at once.
ReturnUnreleased(c) == Return(c)

\* A failed step of a sequence: a press that failed is returned, a frame_advance
\* that failed has its buttons released first.
Unwind(c) ==
  IF doing[c].phase = "advance"
  THEN /\ doing' = [doing EXCEPT ![c].at = "wait", ![c].phase = "unwind"]
       /\ UNCHANGED <<control, left>>
  ELSE Return(c)

Fail(c) == IF doing[c].op = "sequence" THEN Unwind(c) ELSE Return(c)

Allowed(c) == control \in {Nothing, c}

Prepared(call) ==
  /\ call.op = "freeze" => HasRoom(call.cell)
  /\ call.op = "unfreeze" => \E i \in DOMAIN freezes : freezes[i].id = call.id

Admit(c) ==
  /\ doing[c].at = "wait" /\ scheduler = Nothing
  /\ IF Allowed(c) /\ Prepared(doing[c])
     THEN /\ scheduler' = c
          /\ doing' = [doing EXCEPT ![c].at = IF doing[c].op \in Local THEN "commit" ELSE "native"]
          /\ UNCHANGED <<control, left>>
     ELSE /\ Fail(c)
          /\ UNCHANGED scheduler
  /\ UNCHANGED <<freezeVars, sweep, machineVars, ledger, revision, begun, holdFaults>>

\* The plugin answers; or the command fails, and may have landed all the same.
Answered(c) ==
  /\ doing[c].at = "native"
  /\ Effect(doing[c])
  /\ doing' = [doing EXCEPT ![c].at = "commit"]
  /\ UNCHANGED <<freezeVars, sweep, ledger, revision, scheduler, control, begun, holdFaults, left>>

Failed(c) ==
  /\ doing[c].at = "native" /\ holdFaults < MaxHoldFaults /\ holdFaults' = holdFaults + 1
  /\ scheduler' = Nothing
  /\ \/ Effect(doing[c])
     \/ UNCHANGED machineVars
  /\ Fail(c)
  /\ UNCHANGED <<freezeVars, sweep, ledger, revision, begun>>

\* The server-local part of a mutation, still under the scheduler.
CommitResources(call) ==
  CASE call.op = "freeze" -> SetFreeze(call.cell, call.datum) /\ UNCHANGED ledger
    [] call.op = "unfreeze" -> RemoveFreeze(call.id) /\ UNCHANGED <<issued, ledger>>
    [] call.op \in {"clear", "soft"} -> freezes' = <<>> /\ UNCHANGED <<issued, ledger>>
    [] call.op \in Loads -> freezes' = <<>> /\ ledger' = Nothing /\ UNCHANGED issued
    [] OTHER -> UNCHANGED <<freezeVars, ledger>>

\* The next command of a sequence after one that succeeded.
NextPhase(call) ==
  CASE call.phase = "press" ->
         [call EXCEPT !.at = "wait", !.phase = "advance", !.tried = @ \cup {Head(call.steps)}]
    [] call.phase = "advance" -> [call EXCEPT !.at = "wait", !.phase = "release"]
    [] call.phase = "release" /\ Len(call.steps) > 1 ->
         [call EXCEPT !.at = "wait", !.phase = "press", !.steps = Tail(@)]
    [] OTHER -> [call EXCEPT !.at = "after"]

Commit(c) ==
  /\ doing[c].at = "commit"
  /\ revision' = revision + 1 /\ scheduler' = Nothing
  /\ CommitResources(doing[c])
  /\ CASE doing[c].op = "sequence" /\ doing[c].phase = "unwind" -> Return(c)
       [] doing[c].op = "sequence" /\ doing[c].phase # "unwind" ->
            doing' = [doing EXCEPT ![c] = NextPhase(doing[c])] /\ UNCHANGED <<control, left>>
       [] doing[c].op \in {"input", "hard"} ->
            doing' = [doing EXCEPT ![c].at = "after"] /\ UNCHANGED <<control, left>>
       [] OTHER -> Return(c)
  /\ UNCHANGED <<sweep, machineVars, begun, holdFaults>>

\* input_set reads the ledger after the scheduler, and writes it in a second step;
\* a hard reset empties it once more; a sequence reads the generation first.
ReadLedger(c) ==
  /\ doing[c].at = "after" /\ doing[c].op \in InputOp
  /\ doing' = [doing EXCEPT ![c].at = "record", ![c].held = Commanded, ![c].id = revision]
  /\ UNCHANGED <<freezeVars, sweep, machineVars, ledger, revision, scheduler, control, begun,
                 holdFaults, left>>

RecordInput(c) ==
  /\ doing[c].at = "record" /\ doing[c].op = "input"
  /\ ledger' = [buttons |-> Fold(doing[c].held, doing[c].buttons, doing[c].down), revision |-> revision]

RecordSequence(c) ==
  /\ doing[c].at = "record" /\ doing[c].op = "sequence"
  /\ ledger' = [buttons |-> {}, revision |-> doing[c].id]

ForgetInput(c) ==
  /\ doing[c].at = "after" /\ doing[c].op = "hard"
  /\ ledger' = Nothing

Settle(c) ==
  /\ RecordInput(c) \/ RecordSequence(c) \/ ForgetInput(c)
  /\ UNCHANGED <<freezeVars, sweep, machineVars, revision, scheduler, begun, holdFaults>>
  /\ Return(c)

\* The lock of a sequence runs out after 120 seconds.
ExpireControl ==
  /\ control # Nothing
  /\ control' = Nothing
  /\ doing' = [doing EXCEPT ![control].clean = FALSE]
  /\ UNCHANGED <<freezeVars, sweep, machineVars, ledger, revision, scheduler, begun, holdFaults, left>>

FreezeRequests ==
  {[Resting EXCEPT !.op = "freeze", !.cell = range[1], !.datum = range[2]] : range \in Cell \X Datum}
UnfreezeRequests == {[Resting EXCEPT !.op = "unfreeze", !.id = id] : id \in 1..issued}
PlainRequests    == {[Resting EXCEPT !.op = op] : op \in {"clear", "load", "hard", "soft"}}
InputRequests ==
  {[Resting EXCEPT !.op = "input", !.buttons = {key[1]}, !.down = key[2]] : key \in Button \X BOOLEAN}
SequenceRequests == {[Resting EXCEPT !.op = "sequence", !.steps = plan] : plan \in Plan}

Requests ==
  FreezeRequests \cup UnfreezeRequests \cup PlainRequests \cup InputRequests \cup SequenceRequests

CallerStep(c) ==
  \/ Admit(c) \/ Answered(c) \/ Failed(c) \/ Commit(c) \/ ReadLedger(c) \/ Settle(c)

HoldsNext ==
  \/ \E c \in Caller : CallerStep(c) \/ \E call \in Requests : Begin(c, call)
  \/ CopyFreezes \/ WriteFreeze
  \/ \E cell \in Cell : Emulate(cell)
  \/ ExpireControl

HoldsSpec == HoldsInit /\ [][HoldsNext]_holdVars

\* The ticker of the sweeper goes on for the life of the process.
SweeperFairness == WF_holdVars(CopyFreezes) /\ WF_holdVars(WriteFreeze)

FairHoldsSpec == HoldsSpec /\ SweeperFairness

----------------------------------------------------------------------------
(***************************************************************************)
(* The freeze set never exceeds its cap and never holds two entries for    *)
(* one cell, although the check that there is room and the insertion,      *)
(* which panics without room, are apart (tools_freeze.go:356-372).         *)
(***************************************************************************)
FreezeSetSound ==
  /\ Len(freezes) <= MaxFreezes
  /\ \A i, j \in DOMAIN freezes : i # j => freezes[i].cell # freezes[j].cell

(***************************************************************************)
(* A sequence whose commands other than frame_advance were all answered    *)
(* leaves none of its buttons down, however it ended and whatever other    *)
(* clients asked for meanwhile, unless its lock ran out                    *)
(* (tools_input_sequence.go:132).                                          *)
(***************************************************************************)
SequenceReleases == left = {}

(***************************************************************************)
(* A frozen range is written back: as long as the entry stays, its bytes   *)
(* return to memory after every update of the program.                     *)
(***************************************************************************)
FrozenIsRewritten ==
  \A cell \in Cell, datum \in Datum :
    (\E i \in DOMAIN freezes : freezes[i].cell = cell /\ freezes[i].datum = datum)
      ~> \/ memory[cell] = datum
         \/ ~\E i \in DOMAIN freezes : freezes[i].cell = cell /\ freezes[i].datum = datum

=============================================================================
