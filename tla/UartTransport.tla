---------------------------- MODULE UartTransport ----------------------------
(***************************************************************************)
(* UartTransport: frames wait in writeQueue until asyncWrite() moves all of *)
(* them to writeBufferVector and starts an asynchronous write of it.  Its   *)
(* threads:                                                                 *)
(*                                                                          *)
(*   Callers  threads of the layers above, in send();                       *)
(*   "io"     the io_service: writeHandler(), and readHandler(), whose      *)
(*            upper layer answers a packet with a send() of its own.        *)
(*                                                                          *)
(* queueMutex covers the queue, not the unlocked test of                    *)
(* asyncWriteInProgress in send(), nor the write started after it is        *)
(* released; each locked region is one step.  A frame is a number, in the   *)
(* order of queueing.  Calls that open() or send() refuse change nothing    *)
(* and are left out.                                                        *)
(***************************************************************************)
EXTENDS Naturals, Sequences, FiniteSets, SequencesExt

CONSTANTS
    Callers,      \* threads other than "io" that call send()
    MaxFrames,    \* bound: frames sent
    MaxSessions   \* bound: calls of open()

ASSUME CallersAssumption == "io" \notin Callers
ASSUME BoundsAssumption == MaxFrames \in Nat /\ MaxSessions \in Nat

VARIABLES
    isOpen,
    port,          \* the serial port: "closed", "open" or "cancelled"
    ioThread,      \* ioServiceThread: "none", "running", "joined", or
                   \* "terminated" when a running one was replaced
    reading,       \* whether an asynchronous read is under way
    writeQueue,
    writeBufferVector,
    asyncWriteInProgress,
    pc,            \* where each thread is in send() and asyncWrite()
    closing,       \* whether close() is running, under isOpenMutex
    operations,    \* the writes under way: the frames, and how many are out
    queued,        \* history: frames put in the queue so far
    wire,          \* the frames that left through the port, in order
    writeFailed,   \* history: a write of this session ended with an error
    overlapped,    \* history: two threads found asyncWriteInProgress FALSE
                   \* and went on to asyncWrite() both
    sessions       \* calls of open()

queueVars == <<writeQueue, writeBufferVector, asyncWriteInProgress>>
portVars  == <<isOpen, port, ioThread, reading, closing, sessions>>
history   == <<queued, wire, writeFailed, overlapped>>
vars      == <<queueVars, portVars, history, pc, operations>>

Threads == Callers \union {"io"}
Garbage == 0    \* what a write sends from memory that is not its own

(* A write operation that puts its frames out one after the other.         *)
Operation(frames) == [frames |-> frames, out |-> 0]

Init ==
    /\ isOpen = FALSE
    /\ port = "closed"
    /\ ioThread = "none"
    /\ reading = FALSE
    /\ writeQueue = <<>>
    /\ writeBufferVector = <<>>
    /\ asyncWriteInProgress = FALSE
    /\ pc = [t \in Threads |-> "idle"]
    /\ closing = FALSE
    /\ operations = <<>>
    /\ queued = 0
    /\ wire = <<>>
    /\ writeFailed = FALSE
    /\ overlapped = FALSE
    /\ sessions = 0

-----------------------------------------------------------------------------
(* send() and asyncWrite().                                                *)

(* The layers above send only while the port is open (H5StateMachine,      *)
(* SendsOnlyToOpenPort), and the io thread only from readHandler().        *)
MaySend(t) == t \in Callers \/ reading

Send(t) ==
    /\ pc[t] = "idle"
    /\ isOpen /\ port = "open" /\ ~closing
    /\ MaySend(t)
    /\ queued + Cardinality({u \in Threads : pc[u] = "queue"}) < MaxFrames
    /\ pc' = [pc EXCEPT ![t] = "queue"]
    /\ UNCHANGED <<queueVars, portVars, history, operations>>

Enqueue(t) ==
    /\ pc[t] = "queue"
    /\ queued' = queued + 1
    /\ writeQueue' = Append(writeQueue, queued')
    /\ pc' = [pc EXCEPT ![t] = "test"]
    /\ UNCHANGED <<writeBufferVector, asyncWriteInProgress, portVars, wire, writeFailed,
                   overlapped, operations>>

(* if (!asyncWriteInProgress) asyncWrite(); AlwaysWrites leaves out the    *)
(* test.                                                                   *)
AlwaysWrites == TRUE
MustWrite    == ~asyncWriteInProgress

AnotherTakes(t) == \E u \in Threads \ {t} : pc[u] = "take"

Test(t) ==
    /\ pc[t] = "test"
    /\ pc' = [pc EXCEPT ![t] = IF MustWrite THEN "take" ELSE "idle"]
    /\ overlapped' = (overlapped \/ (~asyncWriteInProgress /\ AnotherTakes(t)))
    /\ UNCHANGED <<queueVars, portVars, queued, wire, writeFailed, operations>>

(* The locked region of asyncWrite(), with its early return.               *)
NothingPending == writeQueue = <<>>

(* TakesFirst moves one frame and drops the others.                        *)
TakesFirst(queue) == <<Head(queue)>>
Moved(queue)      == queue

Take(t) ==
    /\ pc[t] = "take"
    /\ asyncWriteInProgress' = (writeQueue # <<>>)
    /\ IF NothingPending
       THEN /\ pc' = [pc EXCEPT ![t] = "idle"]
            /\ UNCHANGED <<writeQueue, writeBufferVector>>
       ELSE /\ pc' = [pc EXCEPT ![t] = "start"]
            /\ writeBufferVector' = Moved(writeQueue)
            /\ writeQueue' = <<>>
    /\ UNCHANGED <<portVars, history, operations>>

(* asio::async_write() of what the buffer holds by now.                    *)
StartWrite(t) ==
    /\ pc[t] = "start"
    /\ pc' = [pc EXCEPT ![t] = "idle"]
    /\ operations' = Append(operations, Operation(writeBufferVector))
    /\ UNCHANGED <<queueVars, portVars, history>>

-----------------------------------------------------------------------------
(* The io_service.                                                         *)

(* A write sends from the memory of writeBufferVector.  Once the vector    *)
(* has been filled anew that is the new contents, or, if the vector grew,  *)
(* memory that was freed.                                                  *)
InMemory(op) ==
    LET place == op.out + 1
    IN  IF writeBufferVector = op.frames
        THEN {op.frames[place]}
        ELSE {Garbage} \union {writeBufferVector[i] : i \in {place} \intersect
                                                            DOMAIN writeBufferVector}

(* The port takes the next frame of a write; overlapping writes mix.       *)
PutOut ==
    /\ port = "open"
    /\ \E i \in DOMAIN operations :
          /\ operations[i].out < Len(operations[i].frames)
          /\ operations' = [operations EXCEPT ![i].out = @ + 1]
          /\ \E frame \in InMemory(operations[i]) : wire' = Append(wire, frame)
    /\ UNCHANGED <<queueVars, portVars, pc, queued, writeFailed, overlapped>>

IoIdle == ioThread = "running" /\ pc["io"] = "idle"

(* writeHandler() without an error goes on to asyncWrite().                *)
WriteDone ==
    /\ IoIdle
    /\ \E i \in DOMAIN operations :
          /\ operations[i].out = Len(operations[i].frames)
          /\ operations' = RemoveAt(operations, i)
    /\ pc' = [pc EXCEPT !["io"] = "take"]
    /\ UNCHANGED <<queueVars, portVars, history>>

(* writeHandler() with any other error logs it and does nothing more.      *)
WriteFails ==
    /\ IoIdle
    /\ \E i \in DOMAIN operations :
          /\ operations[i].out < Len(operations[i].frames)
          /\ operations' = RemoveAt(operations, i)
    /\ writeFailed' = TRUE
    /\ UNCHANGED <<queueVars, portVars, pc, queued, wire, overlapped>>

(* writeHandler() for a write that close() cancelled.                      *)
WriteAborted ==
    /\ IoIdle
    /\ port = "cancelled"
    /\ \E i \in DOMAIN operations :
          /\ operations[i].out < Len(operations[i].frames)
          /\ operations' = RemoveAt(operations, i)
    /\ writeQueue' = <<>>
    /\ asyncWriteInProgress' = FALSE
    /\ UNCHANGED <<writeBufferVector, portVars, history, pc>>

(* readHandler() with an error reports it and reads no more.               *)
ReadFails ==
    /\ IoIdle
    /\ reading
    /\ reading' = FALSE
    /\ UNCHANGED <<queueVars, isOpen, port, ioThread, closing, sessions, history, pc,
                   operations>>

-----------------------------------------------------------------------------
(* open() and close().  Nothing above is in send() when they are called:   *)
(* H5Transport holds its own isOpenMutex in open(), close() and send().    *)

CallersIdle == \A t \in Callers : pc[t] = "idle"

Open ==
    /\ ~isOpen /\ ~closing
    /\ CallersIdle
    /\ ioThread \in {"none", "joined"}
    /\ sessions < MaxSessions
    /\ sessions' = sessions + 1
    /\ isOpen' = TRUE
    /\ \/ port' = "open" /\ ioThread' = "running" /\ reading' = TRUE
       \/ UNCHANGED <<port, ioThread, reading>>    \* the port cannot be opened
    /\ writeFailed' = FALSE
    /\ UNCHANGED <<queueVars, closing, queued, wire, overlapped, pc, operations>>

(* Replacing a std::thread that is still joinable ends the program.        *)
OpenTerminates ==
    /\ ~isOpen /\ ~closing
    /\ CallersIdle
    /\ ioThread = "running"
    /\ ioThread' = "terminated"
    /\ sessions < MaxSessions
    /\ sessions' = sessions + 1
    /\ UNCHANGED <<queueVars, isOpen, port, reading, closing, history, pc, operations>>

CloseCancel ==
    /\ isOpen
    /\ CallersIdle
    /\ isOpen' = FALSE
    /\ closing' = TRUE
    /\ port' = IF port = "open" THEN "cancelled" ELSE port
    /\ reading' = FALSE
    /\ UNCHANGED <<queueVars, ioThread, sessions, history, pc, operations>>

(* Waits for the handler that runs; the others never run.  SkipsReset      *)
(* forgets asyncWriteInProgress.                                           *)
SkipsReset     == asyncWriteInProgress
FlagOnceClosed == FALSE

CloseJoin ==
    /\ closing
    /\ port = "cancelled"
    /\ pc["io"] = "idle"
    /\ closing' = FALSE
    /\ port' = "closed"
    /\ ioThread' = "joined"
    /\ operations' = <<>>
    /\ asyncWriteInProgress' = FlagOnceClosed
    /\ UNCHANGED <<writeQueue, writeBufferVector, isOpen, reading, sessions, history, pc>>

(* serialPort->cancel() or close() throws: always if the port was never    *)
(* open.  close() returns NRF_ERROR_SD_RPC_SERIAL_PORT_INTERNAL_ERROR.     *)
CloseThrows ==
    /\ closing
    /\ closing' = FALSE
    /\ UNCHANGED <<queueVars, isOpen, port, ioThread, reading, sessions, history, pc,
                   operations>>

-----------------------------------------------------------------------------
Step(t)   == Enqueue(t) \/ Test(t) \/ Take(t) \/ StartWrite(t)
Handlers  == WriteDone \/ WriteFails \/ WriteAborted
Close     == CloseJoin \/ CloseThrows
Next ==
    \/ \E t \in Threads : Send(t) \/ Step(t)
    \/ PutOut \/ Handlers \/ ReadFails
    \/ Open \/ OpenTerminates \/ CloseCancel \/ Close

(* Threads go on with what they have begun, the port takes what is written *)
(* and a write that ends gets its handler run.                             *)
Fairness ==
    /\ \A t \in Threads : WF_vars(Step(t))
    /\ WF_vars(PutOut)
    /\ WF_vars(Handlers)
    /\ WF_vars(Close)

Spec     == Init /\ [][Next]_vars
FairSpec == Spec /\ Fairness

-----------------------------------------------------------------------------
(* Properties.                                                             *)

(* Every variable has its type, and no write of nothing is under way.      *)
TypeOK ==
    /\ isOpen \in BOOLEAN
    /\ port \in {"closed", "open", "cancelled"}
    /\ ioThread \in {"none", "running", "joined", "terminated"}
    /\ reading \in BOOLEAN
    /\ writeQueue \in Seq(1..MaxFrames)
    /\ writeBufferVector \in Seq(1..MaxFrames)
    /\ asyncWriteInProgress \in BOOLEAN
    /\ pc \in [Threads -> {"idle", "queue", "test", "take", "start"}]
    /\ closing \in BOOLEAN
    /\ \A op \in ToSet(operations) :
          /\ op.frames \in Seq(1..MaxFrames) \ {<<>>}
          /\ op.out \in 0..Len(op.frames)
    /\ queued \in 0..MaxFrames
    /\ wire \in Seq(0..MaxFrames)
    /\ writeFailed \in BOOLEAN
    /\ overlapped \in BOOLEAN
    /\ sessions \in 0..MaxSessions

(* What has been queued and is not out yet: the rest of the writes under   *)
(* way, what was moved for a write that has not started, and the queue.    *)
Moving  == IF \E t \in Threads : pc[t] = "start" THEN writeBufferVector ELSE <<>>
Rest(op) == SubSeq(op.frames, op.out + 1, Len(op.frames))
Pending == FlattenSeq([i \in DOMAIN operations |-> Rest(operations[i])])
               \o Moving \o writeQueue

(* Whoever sends, the io thread among them: until two threads have both    *)
(* found asyncWriteInProgress FALSE, no frame is lost, repeated or         *)
(* overtaken on its way through the queue and the buffer, as long as no    *)
(* write fails and the port is not closed.                                 *)
NothingLost ==
    sessions = 1 /\ isOpen /\ ~writeFailed /\ ~overlapped =>
        wire \o Pending = [i \in 1..queued |-> i]

(* Until then frames leave in order and at most once, whatever fails, is   *)
(* cancelled or is left in the queue by close() and goes out in the next   *)
(* session: the unlocked test is the only way to break the order.          *)
Channel == INSTANCE AtMostOnceChannel WITH offered <- queued, delivered <- wire

ImplementsChannel ==
    Channel!Init /\ [][Channel!Next \/ overlapped']_<<queued, wire>>

(* What a thread has put in the queue leaves it, unless a write fails or   *)
(* the port is closed: after a failed write the queue only grows.          *)
QueueDrains ==
    \A t \in Threads :
        pc[t] = "test" ~> writeQueue = <<>> \/ port # "open" \/ writeFailed

(* "sends data to serial port to write": once nothing is under way, what   *)
(* send() accepted has been written.                                       *)
SentIsWritten ==
    /\ sessions = 1 /\ isOpen /\ ~writeFailed
    /\ operations = <<>> /\ writeQueue = <<>>
    /\ \A t \in Threads : pc[t] = "idle"
    => wire = [i \in 1..queued |-> i]
=============================================================================
