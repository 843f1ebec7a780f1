----------------------------- MODULE GpuSubmit -----------------------------
(***************************************************************************)
(* Translation of GPU submissions to Vulkan                                *)
(* (src/include/lightflow/vulkan/vulkan_sync.hpp and                       *)
(* src/include/lightflow/gpu/gpu_submission.hpp): toVkSubmitInfo2Batch     *)
(* turns submissions into VkSubmitInfo2 structures, which point to arrays  *)
(* of wait, command and signal infos that it allocates from an arena one   *)
(* after the other.                                                        *)
(*                                                                         *)
(* Stage masks are sets of bit numbers.  The arena hands out consecutive   *)
(* cells of memory until they are used up (SlabArena models how it works); *)
(* one cell stands for one structure.  Fields that are constants, and the  *)
(* flags of a submission, are left out.                                    *)
(***************************************************************************)
EXTENDS Integers, SequencesExt

CONSTANTS
    Batches,    \* the sequences of submissions that may be translated
    Rooms,      \* the sizes of a caller's array of VkSubmitInfo2
    CAPACITY,   \* the cells the arena can hand out
    PTR,        \* 2^64 in the code, 2^32 on a machine with 32-bit pointers
    None

ASSUME GpuAssumption == CAPACITY \in Nat /\ PTR \in Nat \ {0} /\ Rooms \subseteq Nat

VARIABLES
    batch,      \* the submissions
    pc,
    count,      \* how many of them are translated
    submits,    \* the VkSubmitInfo2 written so far
    memory,     \* the cells of the arena, and those behind it
    top         \* the cells handed out

vars == <<batch, pc, count, submits, memory, top>>

Init ==
    /\ batch \in Batches
    /\ pc = "call" /\ count = 0 /\ submits = <<>>
    /\ memory = [a \in 1..2 * CAPACITY |-> None]
    /\ top = 0

----------------------------------------------------------------------------
(* Stages and queues.                                                      *)

\* The bits of GpuStage that have a name.
GpuStages == 0..23

\* The bit of VkPipelineStageFlags2 for a named bit of GpuStage.
VkBit(b) == IF b <= 16 THEN b ELSE b + 15

ComputeShader == 11
Transfer == 12
AllCommands == 16

\* Bits without a name, which operator~ sets, are dropped.
toVkPipelineStageFlags2(stage) == {VkBit(b) : b \in stage \cap GpuStages}

toVkQueueFlags(queue) ==
    CASE queue = "Graphics" -> {"graphics", "compute", "transfer"}
      [] queue = "Compute"  -> {"compute", "transfer"}
      [] queue = "Transfer" -> {"transfer"}

getDefaultWaitStage(queue) ==
    CASE queue = "Graphics" -> {AllCommands}
      [] queue = "Compute"  -> {ComputeShader}
      [] queue = "Transfer" -> {Transfer}

getDefaultSignalStage(queue) == getDefaultWaitStage(queue)

OrElse(mask, default) == IF mask # {} THEN mask ELSE default

----------------------------------------------------------------------------
(* One info.                                                               *)

\* A handle becomes a pointer of the machine.
toVkSemaphore(handle) == handle % PTR

Info(point, stage, device) ==
    [semaphore |-> toVkSemaphore(point.handle), value |-> point.value,
     stage |-> stage, device |-> device]

\* toVkSemaphoreSubmitInfo of a GpuSyncDesc.
DescInfo(desc, default) ==
    Info(desc.point,
         OrElse(desc.override, OrElse(toVkPipelineStageFlags2(desc.stage), default)),
         desc.device)

Infos(descs, points, default) ==
    [i \in 1..Len(descs) |-> DescInfo(descs[i], default)]
    \o [i \in 1..Len(points) |-> Info(points[i], default, 0)]

waitInfos(s) ==
    Infos(s.waits, s.waitPoints, OrElse(s.defaultWait, getDefaultWaitStage(s.queue)))

\* toVkCommandBufferSubmitInfo of every command buffer.
commandInfos(s) == [i \in 1..Len(s.cmds) |-> [commandBuffer |-> s.cmds[i], deviceMask |-> 0]]

signalInfos(s) ==
    Infos(s.signals, s.signalPoints, OrElse(s.defaultSignal, getDefaultSignalStage(s.queue)))

----------------------------------------------------------------------------
(* The arena, and one submission.                                          *)

totalWaits(s) == Len(s.waits) + Len(s.waitPoints)

\* Mutant: the convenience signals are not counted.
DescSignals(s) == Len(s.signals)

totalSignals(s) == Len(s.signals) + Len(s.signalPoints)

Write(m, at, infos) ==
    [a \in DOMAIN m |-> IF a \in at + 1..at + Len(infos) THEN infos[a - at] ELSE m[a]]

\* toVkSubmitInfo2 with an arena: three spans, one behind the other, each
\* filled in turn; a count of 0 comes with a null pointer.
toVkSubmitInfo2 ==
    LET s == batch[Len(submits) + 1]
        cmdsAt == top + totalWaits(s)
        signalsAt == cmdsAt + Len(s.cmds)
        end == signalsAt + totalSignals(s)
        Span(at, n) == [at |-> IF n > 0 THEN at ELSE None, n |-> n]
    IN  /\ pc = "translate" /\ Len(submits) < count
        /\ end <= CAPACITY
        /\ top' = end
        /\ memory' = Write(Write(Write(memory, top, waitInfos(s)), cmdsAt, commandInfos(s)),
                           signalsAt, signalInfos(s))
        /\ submits' = Append(submits,
             [waits |-> Span(top, Len(s.waits) + Len(s.waitPoints)),
              cmds |-> Span(cmdsAt, Len(s.cmds)),
              signals |-> Span(signalsAt, Len(s.signals) + Len(s.signalPoints))])
        /\ UNCHANGED <<batch, pc, count>>

\* The arena refuses one of the spans, which is then empty: the process ends
\* in LF_ASSERT, or in the write through the null pointer of the span.
SpanRefused ==
    LET s == batch[Len(submits) + 1]
    IN  /\ pc = "translate" /\ Len(submits) < count
        /\ top + totalWaits(s) + Len(s.cmds) + totalSignals(s) > CAPACITY
        /\ pc' = "fault"
        /\ UNCHANGED <<batch, count, submits, memory, top>>

----------------------------------------------------------------------------
(* The batch.                                                              *)

\* toVkSubmitInfo2Batch with an array of the caller, of size room.
BatchInto(room) ==
    /\ pc = "call"
    /\ count' = IF Len(batch) < room THEN Len(batch) ELSE room
    /\ pc' = "translate"
    /\ UNCHANGED <<batch, submits, memory, top>>

\* toVkSubmitInfo2Batch with an array from the arena; nothing is returned
\* when there is nothing to translate or no room for the array.
BatchFromArena ==
    /\ pc = "call"
    /\ \/ /\ batch # <<>> /\ Len(batch) <= CAPACITY
          /\ count' = Len(batch) /\ top' = Len(batch) /\ pc' = "translate"
       \/ /\ batch = <<>> \/ Len(batch) > CAPACITY
          /\ pc' = "returned"
          /\ UNCHANGED <<count, top>>
    /\ UNCHANGED <<batch, submits, memory>>

BatchReturns ==
    /\ pc = "translate" /\ Len(submits) = count
    /\ pc' = "returned"
    /\ UNCHANGED <<batch, count, submits, memory, top>>

Next ==
    \/ \E room \in Rooms : BatchInto(room)
    \/ BatchFromArena \/ toVkSubmitInfo2 \/ SpanRefused \/ BatchReturns

Spec == Init /\ [][Next]_vars

----------------------------------------------------------------------------
(* Properties.                                                             *)

\* What the driver reads through a span.
Read(span) == [i \in 1..span.n |-> memory[span.at + i]]

Unstaged(info) == [f \in DOMAIN info \ {"stage"} |-> info[f]]

\* The infos are those of the descriptors, then those of the points.
Match(infos, descs, points) ==
    LET Plain(point, device) == [semaphore |-> point.handle, value |-> point.value,
                                 device |-> device]
    IN  [i \in DOMAIN infos |-> Unstaged(infos[i])]
            = [i \in 1..Len(descs) |-> Plain(descs[i].point, descs[i].device)]
              \o [i \in 1..Len(points) |-> Plain(points[i], 0)]

\* The capability a queue needs for a stage it uses by default.
Needs(b) == CASE b = ComputeShader -> {"compute"} [] b = Transfer -> {"transfer"} [] OTHER -> {}

\* An empty stage mask would order nothing.  The convenience points, behind
\* the first n infos, use stages that the family of the queue supports if
\* the submission does not say otherwise.
Ordered(infos, n, default, queue) ==
    /\ \A k \in DOMAIN infos : infos[k].stage # {}
    /\ default = {} => \A k \in n + 1..Len(infos) : \A b \in infos[k].stage :
          Needs(b) \subseteq toVkQueueFlags(queue)

\* When the batch is handed to the driver, every structure still leads to
\* exactly the waits, command buffers and signals of its submission, each
\* wait and signal with a stage mask that orders something: a later
\* submission of the batch has not overwritten them, none is dropped, a wait
\* is not a signal, and a stage of which the conversion leaves no bit falls
\* back on a default (toVkSubmitInfo2Batch and the spans it allocates,
\* toVkSemaphoreSubmitInfo).
BatchExact == pc = "returned" =>
    \A i \in 1..Len(submits) :
        LET s == batch[i]
            waits == Read(submits[i].waits)
            signals == Read(submits[i].signals)
        IN  /\ Match(waits, s.waits, s.waitPoints)
            /\ Match(signals, s.signals, s.signalPoints)
            /\ Read(submits[i].cmds) = commandInfos(s)
            /\ Ordered(waits, Len(s.waits), s.defaultWait, s.queue)
            /\ Ordered(signals, Len(s.signals), s.defaultSignal, s.queue)
=============================================================================
