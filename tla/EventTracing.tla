------------------------------ MODULE EventTracing ------------------------------
(***************************************************************************)
(* The hooks through which the runtime reports to an EventTracer (the      *)
(* ETDumpGen that arm_executor_runner.cpp passes to load_method when       *)
(* ET_EVENT_TRACER_ENABLED is set): event_tracer_hooks.h,                  *)
(* event_tracer_hooks_delegate.h and the state of EventTracer itself.      *)
(*                                                                         *)
(* Scopes are C++ objects on the stack, so the last opened closes first;   *)
(* entries begun by hand may end in any order.  start_profiling and        *)
(* end_profiling are virtual: their effect is the header's contract.       *)
(***************************************************************************)
EXTENDS Naturals, Sequences, FiniteSets

CONSTANTS
    Instruction,    \* chain id and debug handle of an instruction
    Unset,          \* kUnsetChainId, kUnsetDebugHandle
    MaxEntries,     \* bound: entries started
    MaxDepth        \* bound: scopes open at a time

ASSUME EntriesAssumption == MaxEntries \in Nat

VARIABLES
    tracer,         \* a tracer was given (FALSE: a null pointer)
    profiling,      \* event_tracer_profiling_level_
    debug,          \* event_tracer_debug_level_
    ids,            \* chain_id_ and debug_handle_
    scopes,         \* the scope objects on the stack
    manual,         \* entries begun without a scope and not yet ended
    started,        \* entries the tracer has handed out
    ended,          \* how often each was given back
    last,           \* the last event: its ids, and the scope it happened in
    moved           \* the profiling level changed under an open op scope

tracingVars == <<tracer, profiling, debug, ids, scopes, manual, started, ended, last, moved>>

kProfileMethodOnly == 0
kProfileAllEvents == 1
kNoLogging == 0
kProgramOutputs == 1
kIntermediateOutputs == 2

-----------------------------------------------------------------------------
NoEntry == 0                    \* an EventTracerEntry nobody has set

InstructionScopes == {i \in 1 .. Len(scopes) : scopes[i].kind = "instruction"}
Innermost == CHOOSE i \in InstructionScopes : \A j \in InstructionScopes : j <= i

\* The instruction whose code is running, for the record: Unset if none is, and
\* whether an inner instruction scope was closed since it began.
Where ==
    IF InstructionScopes = {} THEN [of |-> Unset, eclipsed |-> FALSE]
    ELSE [of |-> scopes[Innermost].ids, eclipsed |-> scopes[Innermost].eclipsed]

\* An event recorded now bears the ids stored in the tracer.
Record == last' = [ids |-> ids, in |-> Where]

TracingInit ==
    /\ tracer \in BOOLEAN
    /\ profiling = kProfileAllEvents
    /\ debug = kNoLogging
    /\ ids = Unset
    /\ scopes = <<>>
    /\ manual = {}
    /\ started = 0
    /\ ended = [e \in NoEntry .. MaxEntries |-> 0]
    /\ last = [ids |-> Unset, in |-> Where]
    /\ moved = FALSE

start_profiling ==
    /\ started < MaxEntries
    /\ started' = started + 1
    /\ Record

Push(s) ==
    /\ Len(scopes) < MaxDepth
    /\ scopes' = Append(scopes, s)
Scope(kind, entry, sids) == [kind |-> kind, entry |-> entry, ids |-> sids, eclipsed |-> FALSE]

\* EventTracerProfileMethodScope
OpenMethod ==
    /\ IF tracer THEN start_profiling ELSE UNCHANGED <<started, last>>
    /\ Push(Scope("method", started', Unset))
    /\ UNCHANGED <<tracer, profiling, debug, ids, manual, ended, moved>>

\* EventTracerProfileOpScope: the entry stays unset below kProfileAllEvents.
OpProfiled == tracer /\ profiling > kProfileMethodOnly
OpenOp ==
    /\ IF OpProfiled THEN start_profiling ELSE UNCHANGED <<started, last>>
    /\ Push(Scope("op", IF OpProfiled THEN started' ELSE NoEntry, Unset))
    /\ UNCHANGED <<tracer, profiling, debug, ids, manual, ended, moved>>

\* EventTracerProfileInstructionScope
OpenInstruction(i) ==
    /\ ids' = IF tracer THEN i ELSE ids
    /\ Push(Scope("instruction", NoEntry, IF tracer THEN i ELSE Unset))
    /\ UNCHANGED <<tracer, profiling, debug, manual, started, ended, last, moved>>

\* The destructors.  Below, what encloses the scope that closes.
Top == scopes[Len(scopes)]
Rest == SubSeq(scopes, 1, Len(scopes) - 1)

\* Counted as once or more often.
end_profiling(entry) == ended' = [ended EXCEPT ![entry] = IF @ = 0 THEN 1 ELSE 2]

CloseMethod ==
    /\ scopes # <<>> /\ Top.kind = "method"
    /\ scopes' = Rest
    /\ IF tracer THEN end_profiling(Top.entry) ELSE UNCHANGED ended
    /\ UNCHANGED <<tracer, profiling, debug, ids, manual, started, last, moved>>

\* Mutant: the constructor's condition is not repeated.
CloseOp_IfTracer ==
    /\ scopes # <<>> /\ Top.kind = "op"
    /\ scopes' = Rest
    /\ IF tracer THEN end_profiling(Top.entry) ELSE UNCHANGED ended
    /\ UNCHANGED <<tracer, profiling, debug, ids, manual, started, last, moved>>

\* The level is read again, not remembered from the constructor.
CloseOp ==
    /\ scopes # <<>> /\ Top.kind = "op"
    /\ scopes' = Rest
    /\ IF OpProfiled THEN end_profiling(Top.entry) ELSE UNCHANGED ended
    /\ UNCHANGED <<tracer, profiling, debug, ids, manual, started, last, moved>>

\* Mutant: the ids are left behind.
CloseInstruction_KeepsIds ==
    /\ scopes # <<>> /\ Top.kind = "instruction"
    /\ scopes' = [i \in 1 .. Len(Rest) |->
                     [Rest[i] EXCEPT !.eclipsed = @ \/ Rest[i].kind = "instruction"]]
    /\ UNCHANGED <<tracer, profiling, debug, ids, manual, started, ended, last, moved>>

\* The ids go back to unset, not to those of an enclosing instruction.
CloseInstruction ==
    /\ scopes # <<>> /\ Top.kind = "instruction"
    /\ ids' = IF tracer THEN Unset ELSE ids
    /\ scopes' = [i \in 1 .. Len(Rest) |->
                     [Rest[i] EXCEPT !.eclipsed = @ \/ Rest[i].kind = "instruction"]]
    /\ UNCHANGED <<tracer, profiling, debug, manual, started, ended, last, moved>>

\* event_tracer_begin_profiling_event, event_tracer_start_profiling_delegate;
\* without a tracer the entry is the one nobody has set.
Begin ==
    /\ IF tracer THEN start_profiling /\ manual' = manual \cup {started'}
       ELSE UNCHANGED <<started, last, manual>>
    /\ UNCHANGED <<tracer, profiling, debug, ids, scopes, ended, moved>>

\* event_tracer_end_profiling_event, event_tracer_end_profiling_delegate
End(entry) ==
    /\ entry \in manual
    /\ manual' = manual \ {entry}
    /\ end_profiling(entry)
    /\ UNCHANGED <<tracer, profiling, debug, ids, scopes, started, last, moved>>

\* event_tracer_log_profiling_delegate, event_tracer_log_output_delegate and
\* event_tracer_track_allocation report whatever the levels are.
LogDelegate ==
    /\ tracer
    /\ Record
    /\ UNCHANGED <<tracer, profiling, debug, ids, scopes, manual, started, ended, moved>>

\* event_tracer_log_evalue and event_tracer_log_evalue_output
LogEValue(level) ==
    /\ tracer /\ debug >= level
    /\ Record
    /\ UNCHANGED <<tracer, profiling, debug, ids, scopes, manual, started, ended, moved>>

set_event_tracer_profiling_level(level) ==
    /\ tracer /\ profiling' = level
    /\ moved' = (moved \/ \E i \in 1 .. Len(scopes) : scopes[i].kind = "op" /\ level # profiling)
    /\ UNCHANGED <<tracer, debug, ids, scopes, manual, started, ended, last>>

set_event_tracer_debug_level(level) ==
    /\ tracer /\ debug' = level
    /\ UNCHANGED <<tracer, profiling, ids, scopes, manual, started, ended, last, moved>>

TracingNext ==
    \/ OpenMethod \/ OpenOp \/ CloseMethod \/ CloseOp \/ CloseInstruction
    \/ \E i \in Instruction : OpenInstruction(i)
    \/ Begin \/ \E e \in manual : End(e)
    \/ LogDelegate
    \/ \E l \in {kProgramOutputs, kIntermediateOutputs} : LogEValue(l)
    \/ \E l \in {kProfileMethodOnly, kProfileAllEvents} : set_event_tracer_profiling_level(l)
    \/ \E l \in {kNoLogging, kProgramOutputs, kIntermediateOutputs} : set_event_tracer_debug_level(l)

TracingSpec == TracingInit /\ [][TracingNext]_tracingVars

-----------------------------------------------------------------------------
(* An event is never attributed to an instruction that is over or to an    *)
(* enclosing one, and it bears its own instruction's ids unless an inner   *)
(* scope has closed since that one began, which leaves no ids at all.      *)
EventsAttributed ==
    /\ last.ids \in {last.in.of, Unset}
    /\ last.ids # last.in.of => last.in.eclipsed

(* Every entry given back is one the tracer handed out, given back once,   *)
(* and when all scopes are closed and all events ended none is missing,    *)
(* unless the profiling level changed while an operator scope was open.    *)
Pending == manual \cup ({scopes[i].entry : i \in 1 .. Len(scopes)} \ {NoEntry})
EntriesPaired ==
    ~moved =>
        /\ ended[NoEntry] = 0
        /\ \A e \in 1 .. started : ended[e] = IF tracer /\ e \notin Pending THEN 1 ELSE 0
        /\ ~tracer => started = 0

-----------------------------------------------------------------------------
=============================================================================
