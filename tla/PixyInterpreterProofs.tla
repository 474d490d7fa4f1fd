----------------------- MODULE PixyInterpreterProofs -----------------------
(***************************************************************************)
(* What is proved of PixyInterpreter for every set of callers, every table *)
(* of procedures and every bound.                                          *)
(***************************************************************************)
EXTENDS PixyInterpreter, SequenceTheorems, FiniteSetTheorems, TLAPS

Adding == INSTANCE Recursion WITH Step <- LAMBDA new, blocks, k : PushBlock(blocks, new[k])

-----------------------------------------------------------------------------
(* The constants.                                                          *)

LEMMA Retries == CRP_RETRIES \in Nat \ {0}
BY InterpreterAssumption

LEMMA UidKnown == UidName \in Names
BY InterpreterAssumption

LEMMA Bounds == MaxXdata \in Nat /\ MaxBlobs \in Nat /\ MaxResets \in Nat
BY InterpreterAssumption

LEMMA Table ==
  /\ \A n \in Names \cup {FrameName} :
       DevTable[n] \in Int /\ ChirpProc(DevTable[n]) = DevTable[n]
  /\ \A p \in DOMAIN DevResult : DevResult[p] \in Int
<1>1. /\ \A n \in Names \cup {FrameName} : DevTable[n] \in DOMAIN DevResult \cup {NoProc}
      /\ \A p \in DOMAIN DevResult : p \in Nat /\ p < 32768 /\ DevResult[p] \in Int
  BY InterpreterAssumption
<1>2. \A p \in Nat : p < 32768 => ChirpProc(p) = p
  BY DEF ChirpProc
<1>3. ChirpProc(NoProc) = NoProc /\ NoProc \in Int
  BY DEF ChirpProc, NoProc
<1> QED BY <1>1, <1>2, <1>3

LEMMA ProcType == ASSUME NEW v \in Int PROVE ChirpProc(v) \in Int
BY DEF ChirpProc

LEMMA RequestTypes ==
  /\ \A p \in {0, 1} : InitReq(p) \in Request
  /\ \A n \in Names \cup {FrameName} : EnumReq(n) \in Request
  /\ \A n \in Names, p \in Int : SyncReq(n, p) \in Request
  /\ \A p \in Int : AsyncReq(p) \in Request
<1>1. \A p \in {0, 1} : InitReq(p) \in Request
  BY DEF InitReq, Request, NoName
<1>2. \A n \in Names \cup {FrameName} : EnumReq(n) \in Request
  BY DEF EnumReq, Request, NoProc
<1>3. \A n \in Names, p \in Int : SyncReq(n, p) \in Request
  BY DEF SyncReq, Request
<1>4. \A p \in Int : AsyncReq(p) \in Request
  BY DEF AsyncReq, Request
<1> QED BY <1>1, <1>2, <1>3, <1>4

LEMMA NoCallType == NoCall \in Call /\ NoCall.phase = "none"
<1>1. InitReq(0) \in Request
  BY RequestTypes
<1> QED BY <1>1, Retries DEF NoCall, Call, NoProc

LEMMA OneMessage == ASSUME NEW m \in Message PROVE <<m>> \in Seq(Message)
OBVIOUS

LEMMA AnswerType ==
  ASSUME NEW r \in Request
  PROVE  \/ Answer(r) = <<>>
         \/ \E m \in Message : Answer(r) = <<m>>
<1>1. CASE r.type = "INIT"
  BY <1>1 DEF Answer, Reply, Message
<1>2. CASE r.type = "ENUM"
  <2>1. r.name \in Names \cup {FrameName}
    BY <1>2 DEF Request
  <2> QED BY <1>2, <2>1, Table DEF Answer, Reply, Message
<1>3. CASE r.type \in {"SYNC", "ASYNC"}
  <2>1. CASE ~(r.proc \in DOMAIN DevResult /\ devConnected)
    BY <1>3, <2>1 DEF Answer
  <2>2. CASE r.proc \in DOMAIN DevResult /\ devConnected
    <3>1. DevResult[r.proc] \in Int
      BY <2>2, Table
    <3>2. CallAnswer(r) \in Message
      BY <3>1 DEF CallAnswer, Reply, Message
    <3> QED BY <1>3, <2>2, <3>2 DEF Answer
  <2> QED BY <2>1, <2>2
<1> QED BY <1>1, <1>2, <1>3 DEF Request

-----------------------------------------------------------------------------
(* Types.  TypeOK needs two facts of the control state: a thread that      *)
(* sends a command has one, and attempts are left while a call is sent.    *)

NamesKnown ==
  \A c \in Senders : pc[c] \in {"command", "resolving", "calling"} => name[c] \in Names

AttemptsLeft == call.phase = "send" => call.tries < CRP_RETRIES

TypeInv == TypeOK /\ NamesKnown /\ AttemptsLeft

\* Starting a call keeps the types.
LEMMA StartCallType ==
  ASSUME NEW r \in Request, StartCall(r), m_buf \in BufferContents
  PROVE  /\ call' \in Call /\ m_buf' \in BufferContents
         /\ call'.phase = "send" => call'.tries < CRP_RETRIES
<1>1. NoCall.tries = 0 /\ DOMAIN NoCall = {"phase", "req", "tries", "ok", "val"}
  BY DEF NoCall
<1>2. call' \in Call /\ call'.tries = 0
  BY <1>1, NoCallType, Retries DEF StartCall, Call
<1>3. m_buf' \in BufferContents
  BY DEF StartCall, BufferContents
<1> QED BY <1>2, <1>3, Retries

\* Handling a message keeps the types of the object's data.
LEMMA HandleType ==
  ASSUME NEW m, handleChirp(m), waiting_for_frame_ \in BOOLEAN,
         blocks_are_new_ \in BOOLEAN
  PROVE  waiting_for_frame_' \in BOOLEAN /\ blocks_are_new_' \in BOOLEAN
BY DEF handleChirp, interpret_BA81, interpret_CCB1, interpret_CCB2, dataVars, blockVars

LEMMA InitType == Init => TypeInv
<1> SUFFICES ASSUME Init PROVE TypeInv
  OBVIOUS
<1>1. ControlTypeOK
  BY DEF Init, ControlTypeOK
<1>2. ChirpTypeOK
  BY NoCallType DEF Init, ChirpTypeOK, BufferContents, NoProc
<1>3. LinkTypeOK
  BY DEF Init, LinkTypeOK
<1>4. CountersTypeOK
  BY Bounds DEF Init, CountersTypeOK
<1>5. FlagsTypeOK
  BY DEF Init, FlagsTypeOK
<1>6. call.phase = "none" /\ \A c \in Senders : pc[c] = "idle"
  BY NoCallType DEF Init
<1> QED BY <1>1, <1>2, <1>3, <1>4, <1>5, <1>6 DEF TypeInv, TypeOK, NamesKnown, AttemptsLeft

LEMMA NextType == TypeInv /\ [Next]_vars => TypeInv'
<1> SUFFICES ASSUME ControlTypeOK, NamesKnown, ChirpTypeOK, AttemptsLeft, LinkTypeOK,
                    CountersTypeOK, FlagsTypeOK, [Next]_vars
             PROVE  TypeInv'
  BY DEF TypeInv, TypeOK
<1>1. CASE Send
  <2>1. ChirpTypeOK' /\ AttemptsLeft'
    BY <1>1 DEF Send, chirpVars, objVars, ChirpTypeOK, AttemptsLeft, Call
  <2>2. LinkTypeOK'
    <3>1. call.req \in Request
      BY DEF ChirpTypeOK, Call
    <3> QED BY <1>1, <3>1 DEF Send, LinkTypeOK
  <2>3. ControlTypeOK' /\ NamesKnown' /\ CountersTypeOK' /\ FlagsTypeOK'
    BY <1>1 DEF Send, ControlTypeOK, NamesKnown, devVars, CountersTypeOK, objVars, dataVars, blockVars, chirpVars, FlagsTypeOK
  <2> QED BY <2>1, <2>2, <2>3 DEF TypeInv, TypeOK
<1>2. CASE SendFails
  <2>1. ChirpTypeOK' /\ AttemptsLeft'
    <3>1. call.tries + 1 \in 0..CRP_RETRIES /\ call \in Call
      BY <1>2, Retries DEF SendFails, ChirpTypeOK, AttemptsLeft, Call
    <3>2. /\ call' \in Call
          /\ call'.phase = "send" => call.tries + 1 # CRP_RETRIES /\ call'.tries = call.tries + 1
      BY <1>2, <3>1 DEF SendFails, Call
    <3>3. AttemptsLeft'
      BY <3>1, <3>2, Retries DEF AttemptsLeft
    <3>4. UNCHANGED <<m_buf, get_frame_proc_, proc_cache_>>
      BY <1>2 DEF SendFails, chirpVars, objVars
    <3> QED BY <3>2, <3>3, <3>4 DEF ChirpTypeOK
  <2>2. LinkTypeOK'
    <3>1. call.req \in Request
      BY DEF ChirpTypeOK, Call
    <3>2. toHost' = toHost /\ (toDev' = toDev \/ toDev' = Append(toDev, call.req))
      BY <1>2 DEF SendFails
    <3> QED BY <3>1, <3>2 DEF LinkTypeOK
  <2>3. ControlTypeOK' /\ NamesKnown' /\ CountersTypeOK' /\ FlagsTypeOK'
    BY <1>2 DEF SendFails, ControlTypeOK, NamesKnown, devVars, CountersTypeOK, objVars, dataVars, blockVars, chirpVars, FlagsTypeOK
  <2> QED BY <2>1, <2>2, <2>3 DEF TypeInv, TypeOK
<1>3. CASE TakeResponse
  <2>1. ChirpTypeOK' /\ AttemptsLeft'
    <3> DEFINE m == Head(toHost)
    <3>1. m \in Message
      BY <1>3 DEF TakeResponse, LinkTypeOK
    <3>2. m.val \in Int
      BY <3>1 DEF Message
    <3>3. call' = [call EXCEPT !.phase = "done", !.val = m.val,
                               !.ok = (Returns(m.req) = Expected(call.req))]
      BY <1>3 DEF TakeResponse
    <3>4. call' \in Call /\ call'.phase = "done"
      BY <3>2, <3>3 DEF ChirpTypeOK, Call
    <3>5. m_buf' \in BufferContents
      BY <1>3 DEF TakeResponse, Buffered, BufferContents
    <3> QED BY <1>3, <3>4, <3>5 DEF TakeResponse, objVars, ChirpTypeOK, AttemptsLeft
  <2>2. LinkTypeOK'
    BY <1>3 DEF TakeResponse, linkVars, LinkTypeOK
  <2>3. ControlTypeOK' /\ NamesKnown' /\ CountersTypeOK' /\ FlagsTypeOK'
    BY <1>3 DEF TakeResponse, ControlTypeOK, NamesKnown, devVars, CountersTypeOK, objVars, dataVars, blockVars, chirpVars, FlagsTypeOK
  <2> QED BY <2>1, <2>2, <2>3 DEF TypeInv, TypeOK
<1>4. CASE HandleWhileWaiting
  <2>1. ChirpTypeOK' /\ AttemptsLeft'
    BY <1>4 DEF HandleWhileWaiting, chirpVars, objVars, ChirpTypeOK, AttemptsLeft, BufferContents, Call
  <2>2. LinkTypeOK'
    BY <1>4 DEF HandleWhileWaiting, linkVars, LinkTypeOK
  <2>3. FlagsTypeOK'
    BY HandleType, <1>4 DEF HandleWhileWaiting, objVars, dataVars, blockVars, devVars, chirpVars, FlagsTypeOK
  <2>4. ControlTypeOK' /\ NamesKnown' /\ CountersTypeOK'
    BY <1>4 DEF HandleWhileWaiting, ControlTypeOK, NamesKnown, devVars, CountersTypeOK
  <2> QED BY <2>1, <2>2, <2>3, <2>4 DEF TypeInv, TypeOK
<1>5. CASE ReceiveFails
  <2>1. ChirpTypeOK' /\ AttemptsLeft'
    BY <1>5 DEF ReceiveFails, chirpVars, objVars, ChirpTypeOK, AttemptsLeft, BufferContents, Call
  <2>2. LinkTypeOK'
    BY <1>5 DEF ReceiveFails, linkVars, LinkTypeOK
  <2>3. ControlTypeOK' /\ NamesKnown' /\ CountersTypeOK' /\ FlagsTypeOK'
    BY <1>5 DEF ReceiveFails, ControlTypeOK, NamesKnown, devVars, CountersTypeOK, objVars, dataVars, blockVars, chirpVars, FlagsTypeOK
  <2> QED BY <2>1, <2>2, <2>3 DEF TypeInv, TypeOK
<1>6. CASE Open
  <2>1. ControlTypeOK' /\ NamesKnown'
    BY <1>6 DEF Open, ControlTypeOK, NamesKnown, Lock
  <2>2. ChirpTypeOK' /\ AttemptsLeft'
    BY StartCallType, RequestTypes, NoCallType, <1>6 DEF Open, chirpVars, objVars, ChirpTypeOK, AttemptsLeft, Lock
  <2>3. FlagsTypeOK'
    BY <1>6 DEF Open, objVars, dataVars, blockVars, devVars, chirpVars, FlagsTypeOK
  <2>4. LinkTypeOK' /\ CountersTypeOK'
    BY <1>6 DEF Open, linkVars, LinkTypeOK, devVars, CountersTypeOK
  <2> QED BY <2>1, <2>2, <2>3, <2>4 DEF TypeInv, TypeOK
<1>7. CASE Connected
  <2>1. ControlTypeOK' /\ NamesKnown'
    BY <1>7 DEF Connected, ControlTypeOK, NamesKnown
  <2>2. ChirpTypeOK' /\ AttemptsLeft'
    BY StartCallType, RequestTypes, NoCallType, <1>7 DEF Connected, chirpVars, objVars, ChirpTypeOK, AttemptsLeft
  <2>3. FlagsTypeOK'
    BY <1>7 DEF Connected, objVars, dataVars, blockVars, devVars, chirpVars, FlagsTypeOK
  <2>4. LinkTypeOK' /\ CountersTypeOK'
    BY <1>7 DEF Connected, linkVars, LinkTypeOK, devVars, CountersTypeOK
  <2> QED BY <2>1, <2>2, <2>3, <2>4 DEF TypeInv, TypeOK
<1>8. CASE Opened
  <2>1. ControlTypeOK' /\ NamesKnown'
    BY UidKnown, <1>8 DEF Opened, ControlTypeOK, NamesKnown, Unlock, Senders
  <2>2. ChirpTypeOK' /\ AttemptsLeft'
    <3>1. ChirpProc(call.val) \in Int /\ NoProc \in Int
      BY ProcType DEF ChirpTypeOK, Call, NoProc
    <3> QED BY <1>8, <3>1, NoCallType DEF Opened, Unlock, chirpVars, ChirpTypeOK, AttemptsLeft
  <2>3. FlagsTypeOK'
    BY <1>8 DEF Opened, objVars, dataVars, blockVars, devVars, chirpVars, FlagsTypeOK
  <2>4. LinkTypeOK' /\ CountersTypeOK'
    BY <1>8 DEF Opened, linkVars, LinkTypeOK, devVars, CountersTypeOK
  <2> QED BY <2>1, <2>2, <2>3, <2>4 DEF TypeInv, TypeOK
<1>9. CASE CloseBegins
  <2>1. ControlTypeOK' /\ NamesKnown'
    BY <1>9 DEF CloseBegins, ControlTypeOK, NamesKnown
  <2>2. FlagsTypeOK'
    BY <1>9 DEF CloseBegins, objVars, dataVars, blockVars, devVars, chirpVars, FlagsTypeOK
  <2>3. ChirpTypeOK' /\ AttemptsLeft' /\ LinkTypeOK' /\ CountersTypeOK'
    BY <1>9 DEF CloseBegins, chirpVars, objVars, ChirpTypeOK, AttemptsLeft, linkVars, LinkTypeOK, devVars, CountersTypeOK
  <2> QED BY <2>1, <2>2, <2>3 DEF TypeInv, TypeOK
<1>10. CASE Joined
  <2>1. ControlTypeOK' /\ NamesKnown'
    BY <1>10 DEF Joined, ControlTypeOK, NamesKnown, Lock
  <2>2. ChirpTypeOK' /\ AttemptsLeft'
    BY StartCallType, RequestTypes, NoCallType, <1>10 DEF Joined, chirpVars, objVars, ChirpTypeOK, AttemptsLeft, Lock
  <2>3. LinkTypeOK' /\ CountersTypeOK' /\ FlagsTypeOK'
    BY <1>10 DEF Joined, linkVars, LinkTypeOK, devVars, CountersTypeOK, objVars, dataVars, blockVars, chirpVars, FlagsTypeOK
  <2> QED BY <2>1, <2>2, <2>3 DEF TypeInv, TypeOK
<1>11. CASE Closed
  <2>1. ControlTypeOK' /\ NamesKnown'
    BY <1>11 DEF Closed, ControlTypeOK, NamesKnown, Unlock
  <2>2. ChirpTypeOK' /\ AttemptsLeft'
    BY NoCallType, <1>11 DEF Closed, chirpVars, objVars, ChirpTypeOK, AttemptsLeft, Unlock, BufferContents
  <2>3. FlagsTypeOK'
    BY <1>11 DEF Closed, objVars, dataVars, blockVars, devVars, chirpVars, FlagsTypeOK
  <2>4. LinkTypeOK' /\ CountersTypeOK'
    BY <1>11 DEF Closed, linkVars, LinkTypeOK, devVars, CountersTypeOK
  <2> QED BY <2>1, <2>2, <2>3, <2>4 DEF TypeInv, TypeOK
<1>12. CASE InterpreterChecks
  <2>1. ControlTypeOK' /\ NamesKnown'
    BY <1>12 DEF InterpreterChecks, ControlTypeOK, NamesKnown
  <2>2. ChirpTypeOK' /\ AttemptsLeft' /\ LinkTypeOK' /\ CountersTypeOK' /\ FlagsTypeOK'
    BY <1>12 DEF InterpreterChecks, chirpVars, objVars, ChirpTypeOK, AttemptsLeft, linkVars, LinkTypeOK, devVars, CountersTypeOK, dataVars, blockVars, FlagsTypeOK
  <2> QED BY <2>1, <2>2 DEF TypeInv, TypeOK
<1>13. CASE InterpreterLocks
  <2>1. ControlTypeOK' /\ NamesKnown'
    BY <1>13 DEF InterpreterLocks, ControlTypeOK, NamesKnown, Lock
  <2>2. ChirpTypeOK' /\ AttemptsLeft' /\ LinkTypeOK' /\ CountersTypeOK' /\ FlagsTypeOK'
    BY <1>13 DEF InterpreterLocks, chirpVars, objVars, ChirpTypeOK, AttemptsLeft, linkVars, LinkTypeOK, devVars, CountersTypeOK, dataVars, blockVars, FlagsTypeOK
  <2> QED BY <2>1, <2>2 DEF TypeInv, TypeOK
<1>14. CASE InterpreterServices
  <2>1. ControlTypeOK' /\ NamesKnown'
    BY <1>14 DEF InterpreterServices, ControlTypeOK, NamesKnown, Unlock
  <2>2. ChirpTypeOK' /\ AttemptsLeft'
    BY NoCallType, <1>14 DEF InterpreterServices, chirpVars, objVars, ChirpTypeOK, AttemptsLeft, Unlock, BufferContents, Buffered
  <2>3. LinkTypeOK'
    <3>1. toDev' = toDev /\ (toHost' = toHost \/ (toHost # <<>> /\ toHost' = Tail(toHost)))
      BY <1>14 DEF InterpreterServices
    <3> QED BY <3>1 DEF LinkTypeOK
  <2>4. FlagsTypeOK'
    BY HandleType, <1>14 DEF InterpreterServices, objVars, dataVars, blockVars, devVars, chirpVars, FlagsTypeOK
  <2>5. CountersTypeOK'
    BY <1>14 DEF InterpreterServices, devVars, CountersTypeOK
  <2> QED BY <2>1, <2>2, <2>3, <2>4, <2>5 DEF TypeInv, TypeOK
<1>15. CASE InterpreterExits
  <2>1. ControlTypeOK' /\ NamesKnown'
    BY <1>15 DEF InterpreterExits, ControlTypeOK, NamesKnown
  <2>2. FlagsTypeOK'
    BY <1>15 DEF InterpreterExits, objVars, dataVars, blockVars, devVars, chirpVars, FlagsTypeOK
  <2>3. ChirpTypeOK' /\ AttemptsLeft' /\ LinkTypeOK' /\ CountersTypeOK'
    BY <1>15 DEF InterpreterExits, chirpVars, objVars, ChirpTypeOK, AttemptsLeft, linkVars, LinkTypeOK, devVars, CountersTypeOK
  <2> QED BY <2>1, <2>2, <2>3 DEF TypeInv, TypeOK
<1>16. CASE CloseRequested
  <2>1. ControlTypeOK' /\ NamesKnown'
    BY <1>16 DEF CloseRequested, ControlTypeOK, NamesKnown
  <2>2. ChirpTypeOK' /\ AttemptsLeft' /\ LinkTypeOK' /\ CountersTypeOK' /\ FlagsTypeOK'
    BY <1>16 DEF CloseRequested, chirpVars, objVars, ChirpTypeOK, AttemptsLeft, linkVars, LinkTypeOK, devVars, CountersTypeOK, dataVars, blockVars, FlagsTypeOK
  <2> QED BY <2>1, <2>2 DEF TypeInv, TypeOK
<1>17. CASE NotFound
  BY <1>17 DEF NotFound, vars, linkVars, devVars, chirpVars, objVars, dataVars, blockVars, TypeInv, TypeOK, ControlTypeOK, NamesKnown, ChirpTypeOK, AttemptsLeft, LinkTypeOK, CountersTypeOK, FlagsTypeOK
<1>18. CASE \E n \in ReadSizes, buffer \in BOOLEAN : GetBlocks(n, buffer)
  <2>1. FlagsTypeOK'
    BY <1>18 DEF GetBlocks, objVars, dataVars, blockVars, devVars, chirpVars, FlagsTypeOK
  <2>2. ControlTypeOK' /\ NamesKnown' /\ ChirpTypeOK' /\ AttemptsLeft' /\ LinkTypeOK' /\ CountersTypeOK'
    BY <1>18 DEF GetBlocks, ControlTypeOK, NamesKnown, chirpVars, objVars, ChirpTypeOK, AttemptsLeft, linkVars, LinkTypeOK, devVars, CountersTypeOK
  <2> QED BY <2>1, <2>2 DEF TypeInv, TypeOK
<1>19. CASE ResetFrameWait
  <2>1. CountersTypeOK'
    BY <1>19, Bounds DEF ResetFrameWait, devVars, CountersTypeOK
  <2>2. FlagsTypeOK'
    BY <1>19 DEF ResetFrameWait, objVars, dataVars, blockVars, devVars, chirpVars, FlagsTypeOK
  <2>3. ControlTypeOK' /\ NamesKnown' /\ ChirpTypeOK' /\ AttemptsLeft' /\ LinkTypeOK'
    BY <1>19 DEF ResetFrameWait, ControlTypeOK, NamesKnown, chirpVars, objVars, ChirpTypeOK, AttemptsLeft, linkVars, LinkTypeOK
  <2> QED BY <2>1, <2>2, <2>3 DEF TypeInv, TypeOK
<1>20. ASSUME NEW c \in Callers, Enter(c) PROVE TypeInv'
  <2>1. ControlTypeOK' /\ NamesKnown'
    BY <1>20 DEF Enter, Goto, Leave, Senders, ControlTypeOK, NamesKnown
  <2>2. ChirpTypeOK' /\ AttemptsLeft' /\ LinkTypeOK' /\ CountersTypeOK' /\ FlagsTypeOK'
    BY <1>20 DEF Enter, Goto, Leave, Senders, chirpVars, objVars, ChirpTypeOK, AttemptsLeft, linkVars, LinkTypeOK, devVars, CountersTypeOK, dataVars, blockVars, FlagsTypeOK
  <2> QED BY <2>1, <2>2 DEF TypeInv, TypeOK
<1>21. ASSUME NEW c \in Callers, UpdateFrame(c) PROVE TypeInv'
  <2>1. ControlTypeOK' /\ NamesKnown'
    BY <1>21 DEF UpdateFrame, Goto, Leave, Senders, ControlTypeOK, NamesKnown, Lock
  <2>2. ChirpTypeOK' /\ AttemptsLeft'
    BY StartCallType, RequestTypes, NoCallType, <1>21 DEF UpdateFrame, Goto, Leave, Senders, chirpVars, objVars, ChirpTypeOK, AttemptsLeft, Lock
  <2>3. LinkTypeOK' /\ CountersTypeOK' /\ FlagsTypeOK'
    BY <1>21 DEF UpdateFrame, Goto, Leave, Senders, linkVars, LinkTypeOK, devVars, CountersTypeOK, objVars, dataVars, blockVars, chirpVars, FlagsTypeOK
  <2> QED BY <2>1, <2>2, <2>3 DEF TypeInv, TypeOK
<1>22. ASSUME NEW c \in Callers, FrameRequested(c) PROVE TypeInv'
  <2>1. ControlTypeOK' /\ NamesKnown'
    BY <1>22 DEF FrameRequested, Goto, Leave, Senders, ControlTypeOK, NamesKnown, Unlock
  <2>2. ChirpTypeOK' /\ AttemptsLeft'
    BY NoCallType, <1>22 DEF FrameRequested, Goto, Leave, Senders, chirpVars, objVars, ChirpTypeOK, AttemptsLeft, Unlock
  <2>3. FlagsTypeOK'
    BY <1>22 DEF FrameRequested, Goto, Leave, Senders, objVars, dataVars, blockVars, devVars, chirpVars, FlagsTypeOK
  <2>4. LinkTypeOK' /\ CountersTypeOK'
    BY <1>22 DEF FrameRequested, Goto, Leave, Senders, linkVars, LinkTypeOK, devVars, CountersTypeOK
  <2> QED BY <2>1, <2>2, <2>3, <2>4 DEF TypeInv, TypeOK
<1>23. ASSUME NEW t \in Senders, SendCommand(t) PROVE TypeInv'
  <2>1. ControlTypeOK' /\ NamesKnown'
    BY <1>23 DEF SendCommand, Goto, Leave, Senders, ControlTypeOK, NamesKnown, Lock
  <2>2. ChirpTypeOK' /\ AttemptsLeft'
    <3>1. name[t] \in Names
      BY <1>23 DEF SendCommand, NamesKnown
    <3>2. EnumReq(name[t]) \in Request /\ SyncReq(name[t], proc_cache_[name[t]]) \in Request
      BY <3>1, RequestTypes DEF ChirpTypeOK
    <3>3. \/ UNCHANGED <<call, m_buf>>
          \/ StartCall(EnumReq(name[t])) \/ StartCall(SyncReq(name[t], proc_cache_[name[t]]))
      BY <1>23 DEF SendCommand
    <3>4. call' \in Call /\ m_buf' \in BufferContents /\ AttemptsLeft'
      BY <3>2, <3>3, StartCallType DEF ChirpTypeOK, AttemptsLeft
    <3> QED BY <1>23, <3>4 DEF SendCommand, objVars, ChirpTypeOK
  <2>3. LinkTypeOK' /\ CountersTypeOK' /\ FlagsTypeOK'
    BY <1>23 DEF SendCommand, Goto, Leave, Senders, linkVars, LinkTypeOK, devVars, CountersTypeOK, objVars, dataVars, blockVars, chirpVars, FlagsTypeOK
  <2> QED BY <2>1, <2>2, <2>3 DEF TypeInv, TypeOK
<1>24. ASSUME NEW t \in Senders, Resolved(t) PROVE TypeInv'
  <2>1. ControlTypeOK' /\ NamesKnown'
    BY <1>24 DEF Resolved, Goto, Leave, Senders, ControlTypeOK, NamesKnown, Unlock
  <2>2. ChirpTypeOK' /\ AttemptsLeft'
    <3>1. name[t] \in Names /\ ChirpProc(call.val) \in Int
      BY <1>24, ProcType DEF Resolved, NamesKnown, ChirpTypeOK, Call
    <3>2. SyncReq(name[t], ChirpProc(call.val)) \in Request
      BY <3>1, RequestTypes
    <3>3. \/ /\ StartCall(SyncReq(name[t], ChirpProc(call.val)))
             /\ proc_cache_' = [proc_cache_ EXCEPT ![name[t]] = ChirpProc(call.val)]
          \/ call' = NoCall /\ UNCHANGED <<proc_cache_, m_buf>>
      BY <1>24 DEF Resolved, Unlock
    <3>4. call' \in Call /\ m_buf' \in BufferContents /\ AttemptsLeft'
      BY <3>2, <3>3, StartCallType, NoCallType DEF ChirpTypeOK, AttemptsLeft
    <3>5. proc_cache_' \in [Names -> Int]
      BY <3>1, <3>3 DEF ChirpTypeOK
    <3> QED BY <1>24, <3>4, <3>5 DEF Resolved, objVars, ChirpTypeOK
  <2>3. LinkTypeOK' /\ CountersTypeOK' /\ FlagsTypeOK'
    BY <1>24 DEF Resolved, Goto, Leave, Senders, linkVars, LinkTypeOK, devVars, CountersTypeOK, objVars, dataVars, blockVars, chirpVars, FlagsTypeOK
  <2> QED BY <2>1, <2>2, <2>3 DEF TypeInv, TypeOK
<1>25. ASSUME NEW t \in Senders, CommandReturns(t) PROVE TypeInv'
  <2>1. ControlTypeOK' /\ NamesKnown'
    BY <1>25 DEF CommandReturns, Goto, Leave, Senders, ControlTypeOK, NamesKnown, Unlock
  <2>2. ChirpTypeOK' /\ AttemptsLeft'
    BY NoCallType, <1>25 DEF CommandReturns, Goto, Leave, Senders, chirpVars, objVars, ChirpTypeOK, AttemptsLeft, Unlock
  <2>3. LinkTypeOK' /\ CountersTypeOK' /\ FlagsTypeOK'
    BY <1>25 DEF CommandReturns, Goto, Leave, Senders, linkVars, LinkTypeOK, devVars, CountersTypeOK, objVars, dataVars, blockVars, chirpVars, FlagsTypeOK
  <2> QED BY <2>1, <2>2, <2>3 DEF TypeInv, TypeOK
<1>26. ASSUME NEW c \in Callers, CopyVersion(c) PROVE TypeInv'
  <2>1. ControlTypeOK' /\ NamesKnown'
    BY <1>26 DEF CopyVersion, Goto, Leave, Senders, ControlTypeOK, NamesKnown
  <2>2. ChirpTypeOK' /\ AttemptsLeft' /\ LinkTypeOK' /\ CountersTypeOK' /\ FlagsTypeOK'
    BY <1>26 DEF CopyVersion, Goto, Leave, Senders, chirpVars, objVars, ChirpTypeOK, AttemptsLeft, linkVars, LinkTypeOK, devVars, CountersTypeOK, dataVars, blockVars, FlagsTypeOK
  <2> QED BY <2>1, <2>2 DEF TypeInv, TypeOK
<1>27. CASE DevAnswers
  <2>1. LinkTypeOK'
    <3>1. Head(toDev) \in Request /\ Tail(toDev) \in Seq(Request)
      BY <1>27 DEF DevAnswers, LinkTypeOK
    <3>2. Answer(Head(toDev)) \in Seq(Message)
      <4>1. \/ Answer(Head(toDev)) = <<>>
            \/ \E m \in Message : Answer(Head(toDev)) = <<m>>
        BY <3>1, AnswerType
      <4>2. CASE Answer(Head(toDev)) = <<>>
        <5>1. <<>> \in Seq(Message)
          OBVIOUS
        <5> QED BY <4>2, <5>1
      <4>3. CASE \E m \in Message : Answer(Head(toDev)) = <<m>>
        <5>1. PICK m \in Message : Answer(Head(toDev)) = <<m>>
          BY <4>3
        <5>2. <<m>> \in Seq(Message)
          BY OneMessage
        <5> QED BY <5>1, <5>2
      <4> QED BY <4>1, <4>2, <4>3
    <3>3. toHost' = toHost \o Answer(Head(toDev)) /\ toDev' = Tail(toDev)
      BY <1>27 DEF DevAnswers
    <3>4. toHost \in Seq(Message)
      BY DEF LinkTypeOK
    <3>5. toHost \o Answer(Head(toDev)) \in Seq(Message)
      BY <3>2, <3>4
    <3> QED BY <3>1, <3>3, <3>5 DEF LinkTypeOK
  <2>2. FlagsTypeOK'
    BY <1>27 DEF DevAnswers, objVars, dataVars, blockVars, devVars, chirpVars, FlagsTypeOK
  <2>3. ControlTypeOK' /\ NamesKnown' /\ ChirpTypeOK' /\ AttemptsLeft' /\ CountersTypeOK'
    BY <1>27 DEF DevAnswers, ControlTypeOK, NamesKnown, chirpVars, objVars, ChirpTypeOK, AttemptsLeft, devVars, CountersTypeOK
  <2> QED BY <2>1, <2>2, <2>3 DEF TypeInv, TypeOK
<1>28. CASE DevReports
  <2>1. LinkTypeOK'
    <3>1. PICK m \in Message : toHost' = Append(toHost, m)
      <4>1. xdata' \in Nat
        BY <1>28 DEF DevReports, CountersTypeOK
      <4>2. \A n, k \in 0..MaxBlobs : /\ Xdata("CCB1", xdata', n, 0) \in Message
                                     /\ Xdata("CCB2", xdata', n, k) \in Message
        BY <4>1, RequestTypes, Bounds DEF Xdata, Message
      <4> QED BY <1>28, <4>2 DEF DevReports
    <3> QED BY <1>28, <3>1 DEF DevReports, LinkTypeOK
  <2>2. CountersTypeOK'
    BY <1>28, Bounds DEF DevReports, CountersTypeOK
  <2>3. ControlTypeOK' /\ NamesKnown' /\ ChirpTypeOK' /\ AttemptsLeft' /\ FlagsTypeOK'
    BY <1>28 DEF DevReports, ControlTypeOK, NamesKnown, chirpVars, objVars, ChirpTypeOK, AttemptsLeft, dataVars, blockVars, devVars, FlagsTypeOK
  <2> QED BY <2>1, <2>2, <2>3 DEF TypeInv, TypeOK
<1>29. CASE UNCHANGED vars
  BY <1>29 DEF vars, linkVars, devVars, chirpVars, objVars, dataVars, blockVars, TypeInv, TypeOK, ControlTypeOK, NamesKnown, ChirpTypeOK, AttemptsLeft, LinkTypeOK, CountersTypeOK, FlagsTypeOK
<1> QED
  BY <1>1, <1>2, <1>3, <1>4, <1>5, <1>6, <1>7, <1>8, <1>9, <1>10, <1>11, <1>12, <1>13, <1>14, <1>15, <1>16, <1>17, <1>18, <1>19, <1>20, <1>21, <1>22, <1>23, <1>24, <1>25, <1>26, <1>27, <1>28, <1>29
     DEF Next, ChirpCall, MainThread, InterpreterThread, Caller, Command, Senders

\* Every variable keeps its type, whatever the faults and bounds.
THEOREM TypeCorrect == Spec => []TypeOK
<1>1. Spec => []TypeInv
  BY InitType, NextType, PTL DEF Spec
<1>2. TypeInv => TypeOK
  BY DEF TypeInv
<1> QED BY <1>1, <1>2, PTL

-----------------------------------------------------------------------------
(* Mutual exclusion and lifetime.                                          *)

LEMMA Threads == Callers \cap {Main, Interpreter, Free} = {}
BY InterpreterAssumption

LEMMA StartCallPhase ==
  ASSUME NEW r, StartCall(r)
  PROVE  /\ call'.phase \in {"send", "done"} /\ call'.req = r /\ ~call'.ok
         /\ m_buf' \in {m_buf, "request"}
BY DEF StartCall, NoCall

SafeInv == TypeInv /\ MutexInv /\ LifeInv

LEMMA InitSafe == Init => SafeInv
<1> SUFFICES ASSUME Init PROVE SafeInv
  OBVIOUS
<1>1. TypeInv
  BY InitType
<1>2. MutexInv
  BY Threads, NoCallType DEF Init, MutexInv, Senders, Main, Interpreter, Free
<1>3. LifeInv
  BY DEF Init, LifeInv, InApi, Senders
<1> QED BY <1>1, <1>2, <1>3 DEF SafeInv

LEMMA NextSafe == SafeInv /\ [Next]_vars => SafeInv'
<1> SUFFICES ASSUME SafeInv, [Next]_vars PROVE MutexInv' /\ LifeInv'
  BY NextType DEF SafeInv
<1> USE Threads DEF Senders, Main, Interpreter, Free
<1>0. ControlTypeOK /\ MutexInv /\ LifeInv /\ call \in Call
  BY DEF SafeInv, TypeInv, TypeOK, ChirpTypeOK
<1>1. CASE Send
  <2>1. MutexInv'
    BY <1>0, <1>1 DEF Send, chirpVars, objVars, devVars, dataVars, MutexInv, ControlTypeOK, Call
  <2>2. LifeInv'
    BY <1>0, <1>1 DEF Send, chirpVars, objVars, devVars, dataVars, LifeInv, ControlTypeOK, InApi
  <2> QED BY <2>1, <2>2
<1>2. CASE SendFails
  <2>1. MutexInv'
    BY <1>0, <1>2 DEF SendFails, chirpVars, objVars, devVars, dataVars, MutexInv, ControlTypeOK, Call
  <2>2. LifeInv'
    BY <1>0, <1>2 DEF SendFails, chirpVars, objVars, devVars, dataVars, LifeInv, ControlTypeOK, InApi
  <2> QED BY <2>1, <2>2
<1>3. CASE TakeResponse
  <2>1. MutexInv'
    BY <1>0, <1>3 DEF TakeResponse, objVars, devVars, dataVars, Buffered, VersionName, MutexInv, ControlTypeOK, Call
  <2>2. LifeInv'
    BY <1>0, <1>3 DEF TakeResponse, objVars, devVars, dataVars, Buffered, VersionName, LifeInv, ControlTypeOK, InApi
  <2> QED BY <2>1, <2>2
<1>4. CASE HandleWhileWaiting
  <2>1. MutexInv'
    BY <1>0, <1>4 DEF HandleWhileWaiting, objVars, devVars, MutexInv, ControlTypeOK, Call
  <2>2. LifeInv'
    BY <1>0, <1>4 DEF HandleWhileWaiting, objVars, devVars, LifeInv, ControlTypeOK, InApi
  <2> QED BY <2>1, <2>2
<1>5. CASE ReceiveFails
  <2>1. MutexInv'
    BY <1>0, <1>5 DEF ReceiveFails, objVars, devVars, dataVars, MutexInv, ControlTypeOK, Call
  <2>2. LifeInv'
    BY <1>0, <1>5 DEF ReceiveFails, objVars, devVars, dataVars, LifeInv, ControlTypeOK, InApi
  <2> QED BY <2>1, <2>2
<1>6. CASE Open
  <2>1. MutexInv'
    BY <1>0, StartCallPhase, <1>6 DEF Open, Lock, linkVars, devVars, dataVars, MutexInv, ControlTypeOK
  <2>2. LifeInv'
    BY <1>0, StartCallPhase, <1>6 DEF Open, Lock, linkVars, devVars, dataVars, LifeInv, ControlTypeOK, InApi
  <2> QED BY <2>1, <2>2
<1>7. CASE Connected
  <2>1. MutexInv'
    BY <1>0, StartCallPhase, <1>7 DEF Connected, Returned, objVars, linkVars, devVars, dataVars, MutexInv, ControlTypeOK
  <2>2. LifeInv'
    BY <1>0, StartCallPhase, <1>7 DEF Connected, Returned, objVars, linkVars, devVars, dataVars, LifeInv, ControlTypeOK, InApi
  <2> QED BY <2>1, <2>2
<1>8. CASE Opened
  <2>1. MutexInv'
    BY <1>0, NoCallType, <1>8 DEF Opened, Unlock, Returned, chirpVars, linkVars, devVars, blockVars, MutexInv, ControlTypeOK
  <2>2. LifeInv'
    BY <1>0, NoCallType, <1>8 DEF Opened, Unlock, Returned, chirpVars, linkVars, devVars, blockVars, LifeInv, ControlTypeOK, InApi
  <2> QED BY <2>1, <2>2
<1>9. CASE CloseBegins
  <2>1. MutexInv'
    BY <1>0, <1>9 DEF CloseBegins, InApi, chirpVars, linkVars, devVars, dataVars, MutexInv, ControlTypeOK
  <2>2. LifeInv'
    BY <1>0, <1>9 DEF CloseBegins, InApi, chirpVars, linkVars, devVars, dataVars, LifeInv, ControlTypeOK
  <2> QED BY <2>1, <2>2
<1>10. CASE Joined
  <2>1. MutexInv'
    BY <1>0, StartCallPhase, <1>10 DEF Joined, Lock, objVars, linkVars, devVars, dataVars, MutexInv, ControlTypeOK
  <2>2. LifeInv'
    BY <1>0, StartCallPhase, <1>10 DEF Joined, Lock, objVars, linkVars, devVars, dataVars, LifeInv, ControlTypeOK, InApi, MutexInv
  <2> QED BY <2>1, <2>2
<1>11. CASE Closed
  <2>1. MutexInv'
    BY <1>0, NoCallType, <1>11 DEF Closed, Unlock, Returned, linkVars, devVars, dataVars, MutexInv, ControlTypeOK, LifeInv
  <2>2. LifeInv'
    BY <1>0, NoCallType, <1>11 DEF Closed, Unlock, Returned, linkVars, devVars, dataVars, LifeInv, ControlTypeOK, InApi
  <2> QED BY <2>1, <2>2
<1>12. CASE InterpreterChecks
  <2>1. MutexInv'
    BY <1>0, <1>12 DEF InterpreterChecks, chirpVars, objVars, linkVars, devVars, dataVars, MutexInv, ControlTypeOK
  <2>2. LifeInv'
    BY <1>0, <1>12 DEF InterpreterChecks, chirpVars, objVars, linkVars, devVars, dataVars, LifeInv, ControlTypeOK, InApi
  <2> QED BY <2>1, <2>2
<1>13. CASE InterpreterLocks
  <2>1. MutexInv'
    BY <1>0, <1>13 DEF InterpreterLocks, Lock, chirpVars, objVars, linkVars, devVars, dataVars, MutexInv, ControlTypeOK
  <2>2. LifeInv'
    BY <1>0, <1>13 DEF InterpreterLocks, Lock, chirpVars, objVars, linkVars, devVars, dataVars, LifeInv, ControlTypeOK, InApi
  <2> QED BY <2>1, <2>2
<1>14. CASE InterpreterServices
  <2>1. MutexInv'
    BY <1>0, NoCallType, <1>14 DEF InterpreterServices, Unlock, objVars, devVars, dataVars, Buffered, VersionName, MutexInv, ControlTypeOK
  <2>2. LifeInv'
    BY <1>0, NoCallType, <1>14 DEF InterpreterServices, Unlock, objVars, devVars, dataVars, Buffered, VersionName, LifeInv, ControlTypeOK, InApi
  <2> QED BY <2>1, <2>2
<1>15. CASE InterpreterExits
  <2>1. MutexInv'
    BY <1>0, <1>15 DEF InterpreterExits, chirpVars, linkVars, devVars, dataVars, MutexInv, ControlTypeOK
  <2>2. LifeInv'
    BY <1>0, <1>15 DEF InterpreterExits, chirpVars, linkVars, devVars, dataVars, LifeInv, ControlTypeOK, InApi
  <2> QED BY <2>1, <2>2
<1>16. CASE CloseRequested
  <2>1. MutexInv'
    BY <1>0, <1>16 DEF CloseRequested, chirpVars, objVars, linkVars, devVars, dataVars, MutexInv, ControlTypeOK
  <2>2. LifeInv'
    BY <1>0, <1>16 DEF CloseRequested, chirpVars, objVars, linkVars, devVars, dataVars, LifeInv, ControlTypeOK, InApi
  <2> QED BY <2>1, <2>2
<1>17. CASE NotFound
  <2>1. MutexInv'
    BY <1>0, <1>17 DEF NotFound, vars, chirpVars, objVars, linkVars, devVars, dataVars, blockVars, MutexInv, ControlTypeOK
  <2>2. LifeInv'
    BY <1>0, <1>17 DEF NotFound, vars, chirpVars, objVars, linkVars, devVars, dataVars, blockVars, LifeInv, ControlTypeOK, InApi
  <2> QED BY <2>1, <2>2
<1>18. CASE \E n \in ReadSizes, buffer \in BOOLEAN : GetBlocks(n, buffer)
  <2>1. MutexInv'
    BY <1>0, <1>18 DEF GetBlocks, chirpVars, objVars, linkVars, devVars, MutexInv, ControlTypeOK
  <2>2. LifeInv'
    BY <1>0, <1>18 DEF GetBlocks, chirpVars, objVars, linkVars, devVars, LifeInv, ControlTypeOK, InApi
  <2> QED BY <2>1, <2>2
<1>19. CASE ResetFrameWait
  <2>1. MutexInv'
    BY <1>0, <1>19 DEF ResetFrameWait, chirpVars, objVars, linkVars, devVars, blockVars, MutexInv, ControlTypeOK
  <2>2. LifeInv'
    BY <1>0, <1>19 DEF ResetFrameWait, chirpVars, objVars, linkVars, devVars, blockVars, LifeInv, ControlTypeOK, InApi
  <2> QED BY <2>1, <2>2
<1>20. ASSUME NEW c \in Callers, Enter(c) PROVE MutexInv' /\ LifeInv'
  <2>1. MutexInv'
    BY <1>0, <1>20 DEF Enter, Goto, chirpVars, objVars, linkVars, devVars, dataVars, MutexInv, ControlTypeOK
  <2>2. LifeInv'
    BY <1>0, <1>20 DEF Enter, Goto, chirpVars, objVars, linkVars, devVars, dataVars, LifeInv, ControlTypeOK, InApi
  <2> QED BY <2>1, <2>2
<1>21. ASSUME NEW c \in Callers, UpdateFrame(c) PROVE MutexInv' /\ LifeInv'
  <2>1. MutexInv'
    BY <1>0, StartCallPhase, <1>21 DEF UpdateFrame, Lock, Goto, objVars, linkVars, devVars, dataVars, MutexInv, ControlTypeOK
  <2>2. LifeInv'
    BY <1>0, StartCallPhase, <1>21 DEF UpdateFrame, Lock, Goto, objVars, linkVars, devVars, dataVars, LifeInv, ControlTypeOK, InApi
  <2> QED BY <2>1, <2>2
<1>22. ASSUME NEW c \in Callers, FrameRequested(c) PROVE MutexInv' /\ LifeInv'
  <2>1. MutexInv'
    BY <1>0, NoCallType, <1>22 DEF FrameRequested, Unlock, Goto, Returned, chirpVars, objVars, linkVars, devVars, blockVars, MutexInv, ControlTypeOK
  <2>2. LifeInv'
    BY <1>0, NoCallType, <1>22 DEF FrameRequested, Unlock, Goto, Returned, chirpVars, objVars, linkVars, devVars, blockVars, LifeInv, ControlTypeOK, InApi
  <2> QED BY <2>1, <2>2
<1>23. ASSUME NEW t \in Senders, SendCommand(t) PROVE MutexInv' /\ LifeInv'
  <2>1. MutexInv'
    BY <1>0, StartCallPhase, <1>23 DEF SendCommand, Lock, Goto, Leave, objVars, linkVars, devVars, dataVars, MutexInv, ControlTypeOK
  <2>2. /\ t \in Senders /\ pc[t] = "command"
        /\ UNCHANGED <<it, receiver_, link_, is_closing_>>
    BY <1>23 DEF SendCommand, objVars
  <2>3. m_buf' = "freed" => m_buf = "freed"
    BY <1>23, StartCallPhase DEF SendCommand
  <2>4. CASE ~is_running_
    <3>1. /\ pc' = [pc EXCEPT ![t] = "idle"] /\ name' = [name EXCEPT ![t] = NoName]
          /\ main' = (IF t = Main THEN "failed" ELSE main)
      BY <2>4, <1>23 DEF SendCommand, Leave, Goto, Lock
    <3>2. t = Main => main = "identifying"
      BY <1>0, <2>2 DEF LifeInv
    <3> QED BY <1>0, <2>1, <2>2, <2>3, <3>1, <3>2 DEF LifeInv, ControlTypeOK, InApi
  <2>5. CASE is_running_
    <3>1. PICK l \in {"resolving", "calling"} : pc' = [pc EXCEPT ![t] = l]
      BY <2>5, <1>23 DEF SendCommand, Goto
    <3>2. main' = main /\ name' = name
      BY <2>5, <1>23 DEF SendCommand
    <3> QED BY <1>0, <2>1, <2>2, <2>3, <3>1, <3>2 DEF LifeInv, ControlTypeOK, InApi
  <2> QED BY <2>1, <2>4, <2>5
<1>24. ASSUME NEW t \in Senders, Resolved(t) PROVE MutexInv' /\ LifeInv'
  <2>1. MutexInv'
    BY <1>0, StartCallPhase, NoCallType, <1>24 DEF Resolved, Unlock, Goto, Leave, Returned, objVars, linkVars, devVars, dataVars, MutexInv, ControlTypeOK
  <2>2. LifeInv'
    <3>1. /\ pc[t] = "resolving" /\ m_buf' \in {m_buf, "request"}
          /\ UNCHANGED <<it, receiver_, link_, is_closing_>>
          /\ \/ Goto(t, "calling") /\ UNCHANGED <<main, name>>
             \/ Leave(t, "idle", FALSE)
      BY <1>24, StartCallPhase DEF Resolved, objVars
    <3> QED BY <1>0, <3>1 DEF Leave, Goto, LifeInv, ControlTypeOK, InApi, NoName, UidName
  <2> QED BY <2>1, <2>2
<1>25. ASSUME NEW t \in Senders, CommandReturns(t) PROVE MutexInv' /\ LifeInv'
  <2>1. MutexInv'
    BY <1>0, NoCallType, <1>25 DEF CommandReturns, Unlock, Leave, Returned, chirpVars, objVars, linkVars, devVars, dataVars, Goto, MutexInv, ControlTypeOK
  <2>2. LifeInv'
    BY <1>0, NoCallType, <1>25 DEF CommandReturns, Unlock, Leave, Returned, chirpVars, objVars, linkVars, devVars, dataVars, Goto, LifeInv, ControlTypeOK, InApi, NoName, UidName, VersionName
  <2> QED BY <2>1, <2>2
<1>26. ASSUME NEW c \in Callers, CopyVersion(c) PROVE MutexInv' /\ LifeInv'
  <2>1. MutexInv'
    BY <1>0, <1>26 DEF CopyVersion, Goto, chirpVars, objVars, linkVars, devVars, dataVars, MutexInv, ControlTypeOK
  <2>2. LifeInv'
    BY <1>0, <1>26 DEF CopyVersion, Goto, chirpVars, objVars, linkVars, devVars, dataVars, LifeInv, ControlTypeOK, InApi
  <2> QED BY <2>1, <2>2
<1>27. CASE DevAnswers
  <2>1. MutexInv'
    BY <1>0, <1>27 DEF DevAnswers, chirpVars, objVars, dataVars, MutexInv, ControlTypeOK
  <2>2. LifeInv'
    BY <1>0, <1>27 DEF DevAnswers, chirpVars, objVars, dataVars, LifeInv, ControlTypeOK, InApi
  <2> QED BY <2>1, <2>2
<1>28. CASE DevReports
  <2>1. MutexInv'
    BY <1>0, <1>28 DEF DevReports, chirpVars, objVars, dataVars, MutexInv, ControlTypeOK
  <2>2. LifeInv'
    BY <1>0, <1>28 DEF DevReports, chirpVars, objVars, dataVars, LifeInv, ControlTypeOK, InApi
  <2> QED BY <2>1, <2>2
<1>29. CASE UNCHANGED vars
  <2>1. MutexInv'
    BY <1>0, <1>29 DEF vars, chirpVars, objVars, linkVars, devVars, dataVars, blockVars, MutexInv, ControlTypeOK
  <2>2. LifeInv'
    BY <1>0, <1>29 DEF vars, chirpVars, objVars, linkVars, devVars, dataVars, blockVars, LifeInv, ControlTypeOK, InApi
  <2> QED BY <2>1, <2>2
<1> QED
  BY <1>1, <1>2, <1>3, <1>4, <1>5, <1>6, <1>7, <1>8, <1>9, <1>10, <1>11, <1>12, <1>13, <1>14, <1>15, <1>16, <1>17, <1>18, <1>19, <1>20, <1>21, <1>22, <1>23, <1>24, <1>25, <1>26, <1>27, <1>28, <1>29
     DEF Next, ChirpCall, MainThread, InterpreterThread, Caller, Command, Senders

LEMMA SafeIsAlive == SafeInv => ObjectAlive
<1> SUFFICES ASSUME SafeInv,
                    \/ \E c \in Senders : InApi(c)
                    \/ it \in {"check", "lock", "service"}
                    \/ call.phase # "none"
             PROVE  receiver_ /\ link_ /\ m_buf # "freed"
  BY DEF ObjectAlive
<1>0. ControlTypeOK /\ MutexInv /\ LifeInv
  BY DEF SafeInv, TypeInv, TypeOK
<1>1. main \notin {"new", "closed"}
  <2>1. CASE \E c \in Senders : InApi(c)
    BY <1>0, <2>1 DEF LifeInv, InApi, Senders
  <2>2. CASE it \in {"check", "lock", "service"}
    BY <1>0, <2>2 DEF LifeInv
  <2>3. CASE call.phase # "none"
    <3>1. chirp_access_mutex_ = Main \/ chirp_access_mutex_ \in Callers
      BY <1>0, <2>3 DEF ControlTypeOK, MutexInv
    <3>2. main \in {"connecting", "resolving", "identifying", "deleting"} \/ \E c \in Callers : InApi(c)
      BY <1>0, <3>1 DEF MutexInv, LifeInv, InApi
    <3> QED BY <1>0, <3>2 DEF LifeInv
  <2> QED BY <2>1, <2>2, <2>3
<1> QED BY <1>0, <1>1 DEF LifeInv

\* pixy_close and close() never pull the object from under a thread that is in
\* it or on its way to the mutex (pixy.cpp, pixyinterpreter.cpp: close).
THEOREM Alive == Spec => []ObjectAlive
<1>1. Spec => []SafeInv
  BY InitSafe, NextSafe, PTL DEF Spec
<1> QED BY <1>1, SafeIsAlive, PTL

\* A call is in progress under chirp_access_mutex_ and only then.
THEOREM Exclusion == Spec => []MutexInv
<1>1. Spec => []SafeInv
  BY InitSafe, NextSafe, PTL DEF Spec
<1>2. SafeInv => MutexInv
  BY DEF SafeInv
<1> QED BY <1>1, <1>2, PTL

-----------------------------------------------------------------------------
(* Connection.  A call of a command that is under way or has succeeded was  *)
(* made with a connection.                                                  *)

ConnectedInv ==
  /\ OpenIsConnected
  /\ \A c \in Senders :
       pc[c] = "calling" /\ (call.phase # "done" \/ call.ok) => m_connected

LEMMA CommandNeedsConnection ==
  ASSUME NEW n, NEW p, StartCall(SyncReq(n, p))
  PROVE  call'.phase # "done" \/ call'.ok => m_connected
BY DEF StartCall, Refused, SyncReq, NoCall

LEMMA InitConnected == Init => ConnectedInv
BY DEF Init, ConnectedInv, OpenIsConnected, Senders

LEMMA NextConnected == SafeInv /\ ConnectedInv /\ [Next]_vars => ConnectedInv'
<1> SUFFICES ASSUME SafeInv, ConnectedInv, [Next]_vars PROVE ConnectedInv'
  OBVIOUS
<1> USE Threads DEF Senders, Main, Interpreter, Free
<1>0. /\ ControlTypeOK /\ MutexInv /\ LifeInv /\ MutexInv' /\ LifeInv' /\ call \in Call
      /\ ConnectedInv
  BY NextSafe DEF SafeInv, TypeInv, TypeOK, ChirpTypeOK
<1>o. \A c \in Senders : pc'[c] \in {"resolving", "calling"} =>
        chirp_access_mutex_' = c /\ main' \notin {"connecting", "resolving", "deleting"}
  BY <1>0 DEF MutexInv, LifeInv
<1>1. CASE Send
  BY <1>0, <1>1 DEF Send, chirpVars, objVars, devVars, dataVars, ControlTypeOK, ConnectedInv, OpenIsConnected, Call
<1>2. CASE SendFails
  BY <1>0, <1>2 DEF SendFails, chirpVars, objVars, devVars, dataVars, ControlTypeOK, ConnectedInv, OpenIsConnected, Call
<1>3. CASE TakeResponse
  BY <1>0, <1>3 DEF TakeResponse, objVars, devVars, dataVars, Buffered, VersionName, ControlTypeOK, ConnectedInv, OpenIsConnected, Call
<1>4. CASE HandleWhileWaiting
  BY <1>0, <1>4 DEF HandleWhileWaiting, objVars, devVars, ControlTypeOK, ConnectedInv, OpenIsConnected, Call
<1>5. CASE ReceiveFails
  BY <1>0, <1>5 DEF ReceiveFails, objVars, devVars, dataVars, ControlTypeOK, ConnectedInv, OpenIsConnected, Call
<1>6. CASE Open
  <2>1. \A c \in Senders : pc'[c] # "calling"
    BY <1>o, <1>6 DEF Open, Lock, Unlock
  <2> QED BY <1>0, <1>6, <2>1 DEF Open, ConnectedInv, OpenIsConnected
<1>7. CASE Connected
  <2>1. \A c \in Senders : pc'[c] # "calling"
    BY <1>o, <1>7 DEF Connected, Lock, Unlock
  <2> QED BY <1>0, <1>7, <2>1 DEF Connected, ConnectedInv, OpenIsConnected
<1>8. CASE Opened
  <2>1. \A c \in Senders : pc'[c] # "calling"
    BY <1>o, <1>8 DEF Opened, Lock, Unlock
  <2> QED BY <1>0, <1>8, <2>1 DEF Opened, ConnectedInv, OpenIsConnected
<1>9. CASE CloseBegins
  BY <1>0, <1>9 DEF CloseBegins, InApi, chirpVars, linkVars, devVars, dataVars, ControlTypeOK, ConnectedInv, OpenIsConnected
<1>10. CASE Joined
  <2>1. \A c \in Senders : pc'[c] # "calling"
    BY <1>o, <1>10 DEF Joined, Lock, Unlock
  <2> QED BY <1>0, <1>10, <2>1 DEF Joined, ConnectedInv, OpenIsConnected
<1>11. CASE Closed
  <2>1. \A c \in Senders : pc'[c] # "calling"
    BY <1>o, <1>11 DEF Closed, Lock, Unlock
  <2> QED BY <1>0, <1>11, <2>1 DEF Closed, ConnectedInv, OpenIsConnected
<1>12. CASE InterpreterChecks
  BY <1>0, <1>12 DEF InterpreterChecks, chirpVars, objVars, linkVars, devVars, dataVars, ControlTypeOK, ConnectedInv, OpenIsConnected
<1>13. CASE InterpreterLocks
  BY <1>0, <1>13 DEF InterpreterLocks, Lock, chirpVars, objVars, linkVars, devVars, dataVars, ControlTypeOK, ConnectedInv, OpenIsConnected
<1>14. CASE InterpreterServices
  <2>1. \A c \in Senders : pc'[c] # "calling"
    BY <1>o, <1>14 DEF InterpreterServices, Unlock
  <2> QED BY <1>0, <1>14, <2>1 DEF InterpreterServices, objVars, ConnectedInv, OpenIsConnected
<1>15. CASE InterpreterExits
  BY <1>0, <1>15 DEF InterpreterExits, chirpVars, linkVars, devVars, dataVars, ControlTypeOK, ConnectedInv, OpenIsConnected
<1>16. CASE CloseRequested
  BY <1>0, <1>16 DEF CloseRequested, chirpVars, objVars, linkVars, devVars, dataVars, ControlTypeOK, ConnectedInv, OpenIsConnected
<1>17. CASE NotFound
  BY <1>0, <1>17 DEF NotFound, vars, chirpVars, objVars, linkVars, devVars, dataVars, blockVars, ControlTypeOK, ConnectedInv, OpenIsConnected
<1>18. CASE \E n \in ReadSizes, buffer \in BOOLEAN : GetBlocks(n, buffer)
  BY <1>0, <1>18 DEF GetBlocks, chirpVars, objVars, linkVars, devVars, ControlTypeOK, ConnectedInv, OpenIsConnected
<1>19. CASE ResetFrameWait
  BY <1>0, <1>19 DEF ResetFrameWait, chirpVars, objVars, linkVars, devVars, blockVars, ControlTypeOK, ConnectedInv, OpenIsConnected
<1>20. ASSUME NEW c \in Callers, Enter(c) PROVE ConnectedInv'
  BY <1>0, <1>20 DEF Enter, Goto, chirpVars, objVars, linkVars, devVars, dataVars, ControlTypeOK, ConnectedInv, OpenIsConnected
<1>21. ASSUME NEW c \in Callers, UpdateFrame(c) PROVE ConnectedInv'
  <2>1. UNCHANGED <<main, m_connected>>
    BY <1>21 DEF UpdateFrame
  <2>2. CASE UNCHANGED <<chirp_access_mutex_, call>> /\ Goto(c, "idle")
    BY <1>0, <2>1, <2>2 DEF ConnectedInv, OpenIsConnected, Goto, ControlTypeOK
  <2>3. CASE Goto(c, "updating") /\ Lock(c)
    <3>1. \A d \in Senders : pc'[d] # "calling"
      BY <1>0, <1>o, <2>3 DEF Goto, Lock, ControlTypeOK
    <3> QED BY <1>0, <2>1, <3>1 DEF ConnectedInv, OpenIsConnected
  <2> QED BY <1>21, <2>2, <2>3 DEF UpdateFrame
<1>22. ASSUME NEW c \in Callers, FrameRequested(c) PROVE ConnectedInv'
  <2>1. \A d \in Senders : pc'[d] # "calling"
    BY <1>o, <1>22 DEF FrameRequested, Unlock
  <2> QED BY <1>0, <1>22, <2>1 DEF FrameRequested, chirpVars, ConnectedInv, OpenIsConnected
<1>23. ASSUME NEW t \in Senders, SendCommand(t) PROVE ConnectedInv'
  <2>1. UNCHANGED m_connected /\ pc[t] = "command"
    BY <1>23 DEF SendCommand
  <2>2. CASE UNCHANGED <<chirp_access_mutex_, call>> /\ Leave(t, "idle", FALSE)
    BY <1>0, <2>1, <2>2 DEF ConnectedInv, OpenIsConnected, Leave, Goto, ControlTypeOK
  <2>3. CASE Lock(t) /\ UNCHANGED main
    <3>1. \A c \in Senders : pc'[c] = "calling" => c = t
      BY <1>o, <2>3 DEF Lock
    <3>2. pc'[t] = "calling" => \E p : StartCall(SyncReq(name[t], p))
      BY <1>0, <1>23, <2>3 DEF SendCommand, Lock, Goto, ControlTypeOK
    <3> QED BY <1>0, <2>1, <2>3, <3>1, <3>2, CommandNeedsConnection DEF ConnectedInv, OpenIsConnected
  <2> QED BY <1>23, <2>2, <2>3 DEF SendCommand
<1>24. ASSUME NEW t \in Senders, Resolved(t) PROVE ConnectedInv'
  <2>1. UNCHANGED m_connected /\ pc[t] = "resolving"
    BY <1>24 DEF Resolved
  <2>2. CASE Leave(t, "idle", FALSE) /\ Unlock
    <3>1. \A c \in Senders : pc'[c] # "calling"
      BY <1>o, <2>2 DEF Unlock
    <3> QED BY <1>0, <2>1, <2>2, <3>1 DEF ConnectedInv, OpenIsConnected, Leave
  <2>3. CASE UNCHANGED <<main, chirp_access_mutex_>> /\ StartCall(SyncReq(name[t], ChirpProc(call.val)))
    <3>1. chirp_access_mutex_' = t
      BY <1>0, <2>1, <2>3 DEF MutexInv
    <3>2. \A c \in Senders : pc'[c] = "calling" => c = t
      BY <1>o, <3>1
    <3> QED BY <1>0, <2>1, <2>3, <3>2, CommandNeedsConnection DEF ConnectedInv, OpenIsConnected
  <2> QED BY <1>24, <2>2, <2>3 DEF Resolved
<1>25. ASSUME NEW t \in Senders, CommandReturns(t) PROVE ConnectedInv'
  <2>1. \A c \in Senders : pc'[c] # "calling"
    BY <1>o, <1>25 DEF CommandReturns, Unlock
  <2>2. call.ok => m_connected
    BY <1>0, <1>25 DEF CommandReturns, ConnectedInv
  <2> QED BY <1>0, <1>25, <2>1, <2>2 DEF CommandReturns, Leave, chirpVars, ConnectedInv, OpenIsConnected
<1>26. ASSUME NEW c \in Callers, CopyVersion(c) PROVE ConnectedInv'
  BY <1>0, <1>26 DEF CopyVersion, Goto, chirpVars, objVars, linkVars, devVars, dataVars, ControlTypeOK, ConnectedInv, OpenIsConnected
<1>27. CASE DevAnswers
  BY <1>0, <1>27 DEF DevAnswers, chirpVars, objVars, dataVars, ControlTypeOK, ConnectedInv, OpenIsConnected
<1>28. CASE DevReports
  BY <1>0, <1>28 DEF DevReports, chirpVars, objVars, dataVars, ControlTypeOK, ConnectedInv, OpenIsConnected
<1>29. CASE UNCHANGED vars
  BY <1>0, <1>29 DEF vars, chirpVars, objVars, linkVars, devVars, dataVars, blockVars, ControlTypeOK, ConnectedInv, OpenIsConnected
<1> QED
  BY <1>1, <1>2, <1>3, <1>4, <1>5, <1>6, <1>7, <1>8, <1>9, <1>10, <1>11, <1>12, <1>13, <1>14, <1>15, <1>16, <1>17, <1>18, <1>19, <1>20, <1>21, <1>22, <1>23, <1>24, <1>25, <1>26, <1>27, <1>28, <1>29
     DEF Next, ChirpCall, MainThread, InterpreterThread, Caller, Command, Senders

\* pixy_enumerate keeps an object only if its getUID succeeded, and that takes a
\* connection, although neither setLink nor init looks at what remoteInit returned.
THEOREM OpenConnected == Spec => []OpenIsConnected
<1>1. Spec => [](SafeInv /\ ConnectedInv)
  <2>1. Init => SafeInv /\ ConnectedInv
    BY InitSafe, InitConnected
  <2>2. SafeInv /\ ConnectedInv /\ [Next]_vars => (SafeInv /\ ConnectedInv)'
    BY NextSafe, NextConnected
  <2> QED BY <2>1, <2>2, PTL DEF Spec
<1>2. ConnectedInv => OpenIsConnected
  BY DEF ConnectedInv
<1> QED BY <1>1, <1>2, PTL

-----------------------------------------------------------------------------
(***************************************************************************)
(* Commands get their own answers, and indices are kept under the right    *)
(* name, as long as the link is at worst unable to send: no answer later   *)
(* than the timeout, no lost tail, no send that arrives though it failed.  *)
(* The run LateAnswer shows what happens without that.                     *)
(***************************************************************************)
OnTime == Faults \subseteq {"fail"}

AnswerInv == NoStrayAnswer /\ CallInv /\ ProcsSound

-----------------------------------------------------------------------------
(* Sequences and messages.                                                 *)

LEMMA AppendElements ==
  ASSUME NEW S, NEW s \in Seq(S), NEW e \in S
  PROVE  /\ DOMAIN Append(s, e) = 1..(Len(s) + 1) /\ DOMAIN s = 1..Len(s) /\ Len(s) \in Nat
         /\ \A i \in DOMAIN s : Append(s, e)[i] = s[i]
         /\ Append(s, e)[Len(s) + 1] = e
OBVIOUS

LEMMA TailElements ==
  ASSUME NEW S, NEW s \in Seq(S), s # <<>>
  PROVE  /\ 1 \in DOMAIN s /\ Head(s) = s[1] /\ Head(s) \in S
         /\ \A i \in DOMAIN Tail(s) : /\ i \in Int /\ i + 1 \in DOMAIN s /\ i + 1 # 1
                                      /\ Tail(s)[i] = s[i + 1]
OBVIOUS

LEMMA AnswerMatches ==
  ASSUME NEW r \in Request
  PROVE  \/ Answer(r) = <<>>
         \/ \E m \in Message : /\ Answer(r) = <<m>>
                               /\ m.type = "RSP" => Synchronous(r) /\ m.req = r
                                                    /\ m.val = RightAnswer(r)
<1>1. CASE r.type = "INIT"
  BY <1>1, AnswerType DEF Answer, Reply, Message, RightAnswer, Synchronous
<1>2. CASE r.type = "ENUM"
  <2>1. r.name \in Names \cup {FrameName}
    BY <1>2 DEF Request
  <2>2. Answer(r) = <<Reply("RSP", DevTable[r.name], r)>>
    BY <1>2 DEF Answer
  <2>3. Reply("RSP", DevTable[r.name], r) \in Message
    BY <2>1, Table DEF Reply, Message
  <2> QED BY <1>2, <2>2, <2>3 DEF Reply, RightAnswer, Synchronous
<1>3. CASE r.type \in {"SYNC", "ASYNC"}
  BY <1>3, AnswerType DEF Answer, CallAnswer, Reply, Message, RightAnswer, Synchronous
<1> QED BY <1>1, <1>2, <1>3 DEF Request

-----------------------------------------------------------------------------
(* What most steps do to the two invariants.                               *)

\* Nothing synchronous is in transit while no call waits, and nothing is sent.
LEMMA QuietLink ==
  ASSUME NoStrayAnswer, UNCHANGED linkVars, call' = call \/ call.phase # "wait"
  PROVE  NoStrayAnswer'
<1>1. CASE call' = call
  BY <1>1 DEF NoStrayAnswer, linkVars
<1>2. CASE call.phase # "wait"
  <2>1. /\ \A i \in DOMAIN toDev : ~Synchronous(toDev[i])
        /\ \A i \in DOMAIN toHost : toHost[i].type # "RSP"
    BY <1>2 DEF NoStrayAnswer
  <2>2. toDev' = toDev /\ toHost' = toHost
    BY DEF linkVars
  <2> QED BY <2>1, <2>2 DEF NoStrayAnswer
<1> QED BY <1>1, <1>2

\* A message leaves toHost, and a response only if it ends the call.
LEMMA MessageTaken ==
  ASSUME NoStrayAnswer, LinkTypeOK, toHost # <<>>, toHost' = Tail(toHost), toDev' = toDev,
         call' = call \/ Head(toHost).type = "RSP" \/ call.phase # "wait"
  PROVE  NoStrayAnswer'
<1> DEFINE Rsp(i) == toHost[i].type = "RSP"
<1>1. /\ 1 \in DOMAIN toHost /\ Head(toHost) = toHost[1]
      /\ \A i \in DOMAIN toHost' : /\ i \in Int /\ i + 1 \in DOMAIN toHost /\ i + 1 # 1
                                   /\ toHost'[i] = toHost[i + 1]
  BY TailElements DEF LinkTypeOK
<1>2. CASE call' = call
  <2>1. \A i, j \in DOMAIN toHost' : toHost'[i].type = "RSP" /\ toHost'[j].type = "RSP" => i = j
    <3> SUFFICES ASSUME NEW i \in DOMAIN toHost', NEW j \in DOMAIN toHost',
                        toHost'[i].type = "RSP", toHost'[j].type = "RSP"
                 PROVE  i = j
      OBVIOUS
    <3>1. i + 1 = j + 1
      BY <1>1 DEF NoStrayAnswer
    <3> QED BY <1>1, <3>1
  <2>2. \A i \in DOMAIN toHost' : toHost'[i].type = "RSP" =>
          call'.phase = "wait" /\ toHost'[i].req = call'.req /\ toHost'[i].val = RightAnswer(call'.req)
    BY <1>1, <1>2 DEF NoStrayAnswer
  <2>3. \A i \in DOMAIN toDev', j \in DOMAIN toHost' :
          ~(Synchronous(toDev'[i]) /\ toHost'[j].type = "RSP")
    BY <1>1 DEF NoStrayAnswer
  <2> QED BY <1>2, <2>1, <2>2, <2>3 DEF NoStrayAnswer
<1>3. CASE Head(toHost).type = "RSP" \/ call.phase # "wait"
  <2>1. \A i \in DOMAIN toDev' : ~Synchronous(toDev'[i])
    BY <1>1, <1>3 DEF NoStrayAnswer
  <2>2. \A i \in DOMAIN toHost' : toHost'[i].type # "RSP"
    BY <1>1, <1>3 DEF NoStrayAnswer
  <2> QED BY <2>1, <2>2 DEF NoStrayAnswer
<1> QED BY <1>2, <1>3

\* The thread the call belongs to stays where it is.
LEMMA CallKept ==
  ASSUME CallInv, call' = call, main' = "resolving" => main = "resolving",
         \A c \in Senders : /\ pc'[c] \in {"resolving", "calling"} => pc'[c] = pc[c]
                                                                      /\ name'[c] = name[c]
  PROVE  CallInv'
BY DEF CallInv

LEMMA CallStep ==
  ASSUME CallInv, UNCHANGED <<main, pc, name>>, call'.req = call.req,
         call'.phase = "wait" => Synchronous(call.req),
         call'.ok => /\ call'.phase = "done"
                     /\ Synchronous(call.req) => call'.val = RightAnswer(call.req)
  PROVE  CallInv'
BY DEF CallInv

LEMMA CallEnded ==
  ASSUME MutexInv', chirp_access_mutex_' = Free, call' = NoCall
  PROVE  CallInv'
<1>1. NoCall.phase = "none" /\ ~NoCall.ok
  BY DEF NoCall
<1>2. main' # "resolving" /\ \A c \in Senders : pc'[c] \notin {"resolving", "calling"}
  BY Threads DEF MutexInv, Senders, Main, Interpreter, Free
<1> QED BY <1>1, <1>2 DEF CallInv

-----------------------------------------------------------------------------
LEMMA InitAnswer == Init => AnswerInv
<1> SUFFICES ASSUME Init PROVE AnswerInv
  OBVIOUS
<1>1. NoStrayAnswer
  BY DEF Init, NoStrayAnswer
<1>2. CallInv
  BY DEF Init, CallInv, NoCall
<1>3. ProcsSound
  BY DEF Init, ProcsSound
<1> QED BY <1>1, <1>2, <1>3 DEF AnswerInv

LEMMA NextAnswer ==
  ASSUME OnTime
  PROVE  SafeInv /\ AnswerInv /\ [Next]_vars => AnswerInv'
<1> SUFFICES ASSUME SafeInv, AnswerInv, [Next]_vars
             PROVE  NoStrayAnswer' /\ CallInv' /\ ProcsSound'
  BY DEF AnswerInv
<1> USE Threads DEF Senders, Main, Interpreter, Free
<1>0. /\ ControlTypeOK /\ NamesKnown /\ call \in Call /\ LinkTypeOK
      /\ proc_cache_ \in [Names -> Int]
      /\ MutexInv /\ MutexInv' /\ LifeInv /\ LifeInv'
      /\ NoStrayAnswer /\ CallInv /\ ProcsSound
  BY NextSafe DEF SafeInv, TypeInv, TypeOK, ChirpTypeOK, AnswerInv
<1>w. chirp_access_mutex_ \in {Free, Interpreter} \/ Returned => call.phase # "wait"
  BY <1>0 DEF MutexInv, Returned
<1>b. \A c \in Senders : pc[c] \in {"resolving", "calling"} => chirp_access_mutex_ = c
  BY <1>0 DEF MutexInv
<1>o. \A c \in Senders : pc'[c] \in {"resolving", "calling"} =>
        chirp_access_mutex_' = c /\ main' \notin {"connecting", "resolving", "deleting"}
  BY <1>0 DEF MutexInv, LifeInv
<1>m. main' \in {"connecting", "resolving", "deleting"} => chirp_access_mutex_' = Main
  BY <1>0 DEF MutexInv
<1>1. CASE Send
  <2>1. NoStrayAnswer'
    <3>1. call.req \in Request /\ call'.req = call.req
      BY <1>0, <1>1 DEF Send, Call
    <3>2. /\ DOMAIN toDev' = 1..(Len(toDev) + 1) /\ DOMAIN toDev = 1..Len(toDev)
          /\ Len(toDev) \in Nat
          /\ \A i \in DOMAIN toDev : toDev'[i] = toDev[i]
          /\ toDev'[Len(toDev) + 1] = call.req
      BY <1>0, <1>1, <3>1, AppendElements DEF Send, LinkTypeOK
    <3>3. /\ \A i \in DOMAIN toDev : ~Synchronous(toDev[i])
          /\ \A i \in DOMAIN toHost' : toHost'[i].type # "RSP"
      BY <1>0, <1>1 DEF Send, NoStrayAnswer
    <3>4. \A i \in DOMAIN toDev' : Synchronous(toDev'[i]) =>
            i = Len(toDev) + 1 /\ toDev'[i] = call'.req
      BY <3>1, <3>2, <3>3
    <3>5. Synchronous(call.req) => call'.phase = "wait"
      BY <1>0, <1>1 DEF Send, Synchronous, Call
    <3> QED BY <3>1, <3>3, <3>4, <3>5 DEF NoStrayAnswer
  <2>2. CallInv'
    <3>1. call'.req = call.req /\ (call'.ok => call'.phase = "done" /\ ~Synchronous(call.req))
      BY <1>0, <1>1 DEF Send, Call, CallInv, Synchronous
    <3>2. call'.phase = "wait" => Synchronous(call.req)
      BY <1>0, <1>1 DEF Send, Call, Synchronous
    <3> QED BY <1>0, <1>1, <3>1, <3>2, CallStep DEF Send
  <2>3. ProcsSound'
    BY <1>0, <1>1 DEF Send, chirpVars, objVars, devVars, dataVars, ProcsSound
  <2> QED BY <2>1, <2>2, <2>3
<1>2. CASE SendFails
  <2>1. NoStrayAnswer'
    BY <1>0, <1>2, QuietLink DEF SendFails, OnTime, linkVars
  <2>2. CallInv'
    <3>1. call'.req = call.req /\ ~call'.ok /\ call'.phase # "wait"
      BY <1>0, <1>2 DEF SendFails, Call, CallInv
    <3> QED BY <1>0, <1>2, <3>1, CallStep DEF SendFails
  <2>3. ProcsSound'
    BY <1>0, <1>2 DEF SendFails, chirpVars, objVars, devVars, dataVars, ProcsSound
  <2> QED BY <2>1, <2>2, <2>3
<1>3. CASE TakeResponse
  <2>1. NoStrayAnswer'
    BY <1>0, <1>3, MessageTaken DEF TakeResponse
  <2>2. CallInv'
    <3>1. Head(toHost).val = RightAnswer(call.req)
      BY <1>0, <1>3, TailElements DEF TakeResponse, LinkTypeOK, NoStrayAnswer
    <3>2. call'.req = call.req /\ call'.val = RightAnswer(call.req) /\ call'.phase = "done"
      BY <1>0, <1>3, <3>1 DEF TakeResponse, Call
    <3> QED BY <1>0, <1>3, <3>2, CallStep DEF TakeResponse
  <2>3. ProcsSound'
    BY <1>0, <1>3 DEF TakeResponse, objVars, devVars, dataVars, ProcsSound
  <2> QED BY <2>1, <2>2, <2>3
<1>4. CASE HandleWhileWaiting
  <2>1. NoStrayAnswer'
    BY <1>0, <1>4, MessageTaken DEF HandleWhileWaiting, OnTime
  <2>2. CallInv'
    BY <1>0, <1>4, CallKept DEF HandleWhileWaiting, OnTime
  <2>3. ProcsSound'
    BY <1>0, <1>4 DEF HandleWhileWaiting, objVars, devVars, ProcsSound
  <2> QED BY <2>1, <2>2, <2>3
<1>5. CASE ReceiveFails
  <2>1. NoStrayAnswer'
    <3>1. toDev = <<>> /\ toHost = <<>> /\ toDev' = toDev /\ toHost' = toHost
      BY <1>5 DEF ReceiveFails, OnTime
    <3> QED BY <3>1 DEF NoStrayAnswer
  <2>2. CallInv'
    <3>1. call'.req = call.req /\ ~call'.ok /\ call'.phase = "done"
      BY <1>0, <1>5 DEF ReceiveFails, Call, CallInv
    <3> QED BY <1>0, <1>5, <3>1, CallStep DEF ReceiveFails
  <2>3. ProcsSound'
    BY <1>0, <1>5 DEF ReceiveFails, objVars, devVars, dataVars, ProcsSound
  <2> QED BY <2>1, <2>2, <2>3
<1>6. CASE Open
  <2>1. NoStrayAnswer'
    BY <1>0, <1>w, <1>6, QuietLink DEF Open, Lock, linkVars
  <2>2. CallInv'
    <3>1. call'.phase # "wait" /\ ~call'.ok /\ call'.req = InitReq(1)
      BY <1>6, StartCallPhase DEF Open
    <3>2. main' # "resolving" \/ call'.req = EnumReq(FrameName)
      BY <1>6, <3>1 DEF Open
    <3>3. \A c \in Senders : pc'[c] \notin {"resolving", "calling"}
      BY <1>6, <1>m, <1>o DEF Open
    <3> QED BY <3>1, <3>2, <3>3 DEF CallInv
  <2>3. ProcsSound'
    BY <1>0, <1>6 DEF Open, linkVars, devVars, dataVars, ProcsSound
  <2> QED BY <2>1, <2>2, <2>3
<1>7. CASE Connected
  <2>1. NoStrayAnswer'
    BY <1>0, <1>w, <1>7, QuietLink DEF Connected, Lock, linkVars
  <2>2. CallInv'
    <3>1. call'.phase # "wait" /\ ~call'.ok /\ call'.req = EnumReq(FrameName)
      BY <1>7, StartCallPhase DEF Connected
    <3>2. main' # "resolving" \/ call'.req = EnumReq(FrameName)
      BY <1>7, <3>1 DEF Connected
    <3>3. \A c \in Senders : pc'[c] \notin {"resolving", "calling"}
      BY <1>7, <1>m, <1>o DEF Connected
    <3> QED BY <3>1, <3>2, <3>3 DEF CallInv
  <2>3. ProcsSound'
    BY <1>0, <1>7 DEF Connected, objVars, linkVars, devVars, dataVars, ProcsSound
  <2> QED BY <2>1, <2>2, <2>3
<1>8. CASE Opened
  <2>1. NoStrayAnswer'
    BY <1>0, <1>w, <1>8, QuietLink DEF Opened
  <2>2. CallInv'
    BY <1>0, <1>8, CallEnded DEF Opened, Unlock
  <2>3. ProcsSound'
    <3>1. call.ok => call.val = DevTable[FrameName]
      BY <1>0, <1>8 DEF Opened, Returned, CallInv, EnumReq, Synchronous, RightAnswer
    <3>2. call.ok => ChirpProc(call.val) = DevTable[FrameName]
      BY <3>1, Table
    <3> QED BY <1>0, <1>8, <3>2 DEF Opened, ProcsSound
  <2> QED BY <2>1, <2>2, <2>3
<1>9. CASE CloseBegins
  <2>1. NoStrayAnswer'
    BY <1>0, <1>9, QuietLink DEF CloseBegins, chirpVars, linkVars, devVars, dataVars
  <2>2. CallInv'
    BY <1>0, <1>9, CallKept DEF CloseBegins, InApi, chirpVars, linkVars, devVars, dataVars, ControlTypeOK
  <2>3. ProcsSound'
    BY <1>0, <1>9 DEF CloseBegins, chirpVars, linkVars, devVars, dataVars, ProcsSound
  <2> QED BY <2>1, <2>2, <2>3
<1>10. CASE Joined
  <2>1. NoStrayAnswer'
    BY <1>0, <1>w, <1>10, QuietLink DEF Joined, Lock, linkVars
  <2>2. CallInv'
    <3>1. call'.phase # "wait" /\ ~call'.ok /\ call'.req = InitReq(0)
      BY <1>10, StartCallPhase DEF Joined
    <3>2. main' # "resolving" \/ call'.req = EnumReq(FrameName)
      BY <1>10, <3>1 DEF Joined
    <3>3. \A c \in Senders : pc'[c] \notin {"resolving", "calling"}
      BY <1>10, <1>m, <1>o DEF Joined
    <3> QED BY <3>1, <3>2, <3>3 DEF CallInv
  <2>3. ProcsSound'
    BY <1>0, <1>10 DEF Joined, objVars, linkVars, devVars, dataVars, ProcsSound
  <2> QED BY <2>1, <2>2, <2>3
<1>11. CASE Closed
  <2>1. NoStrayAnswer'
    BY <1>0, <1>w, <1>11, QuietLink DEF Closed
  <2>2. CallInv'
    BY <1>0, <1>11, CallEnded DEF Closed, Unlock
  <2>3. ProcsSound'
    BY <1>0, <1>11 DEF Closed, linkVars, devVars, dataVars, ProcsSound
  <2> QED BY <2>1, <2>2, <2>3
<1>12. CASE InterpreterChecks
  <2>1. NoStrayAnswer'
    BY <1>0, <1>12, QuietLink DEF InterpreterChecks, chirpVars, objVars, linkVars, devVars, dataVars
  <2>2. CallInv'
    BY <1>0, <1>12, CallKept DEF InterpreterChecks, chirpVars, objVars, linkVars, devVars, dataVars, ControlTypeOK
  <2>3. ProcsSound'
    BY <1>0, <1>12 DEF InterpreterChecks, chirpVars, objVars, linkVars, devVars, dataVars, ProcsSound
  <2> QED BY <2>1, <2>2, <2>3
<1>13. CASE InterpreterLocks
  <2>1. NoStrayAnswer'
    BY <1>0, <1>13, QuietLink DEF InterpreterLocks, chirpVars, objVars, linkVars, devVars, dataVars
  <2>2. CallInv'
    BY <1>0, <1>13, CallKept DEF InterpreterLocks, Lock, chirpVars, objVars, linkVars, devVars, dataVars, ControlTypeOK
  <2>3. ProcsSound'
    BY <1>0, <1>13 DEF InterpreterLocks, chirpVars, objVars, linkVars, devVars, dataVars, ProcsSound
  <2> QED BY <2>1, <2>2, <2>3
<1>14. CASE InterpreterServices
  <2>1. NoStrayAnswer'
    <3>1. call.phase # "wait" /\ toDev' = toDev
      BY <1>0, <1>w, <1>14 DEF InterpreterServices, MutexInv
    <3>2. CASE toHost = <<>>
      BY <1>0, <1>14, <3>1, <3>2, QuietLink DEF InterpreterServices, linkVars
    <3>3. CASE toHost # <<>>
      BY <1>0, <1>14, <3>1, <3>3, MessageTaken DEF InterpreterServices
    <3> QED BY <3>2, <3>3
  <2>2. CallInv'
    BY <1>0, <1>14, CallEnded DEF InterpreterServices, Unlock
  <2>3. ProcsSound'
    BY <1>0, <1>14 DEF InterpreterServices, objVars, devVars, dataVars, ProcsSound
  <2> QED BY <2>1, <2>2, <2>3
<1>15. CASE InterpreterExits
  <2>1. NoStrayAnswer'
    BY <1>0, <1>15, QuietLink DEF InterpreterExits, chirpVars, linkVars, devVars, dataVars
  <2>2. CallInv'
    BY <1>0, <1>15, CallKept DEF InterpreterExits, chirpVars, linkVars, devVars, dataVars, ControlTypeOK
  <2>3. ProcsSound'
    BY <1>0, <1>15 DEF InterpreterExits, chirpVars, linkVars, devVars, dataVars, ProcsSound
  <2> QED BY <2>1, <2>2, <2>3
<1>16. CASE CloseRequested
  <2>1. NoStrayAnswer'
    BY <1>0, <1>16, QuietLink DEF CloseRequested, chirpVars, objVars, linkVars, devVars, dataVars
  <2>2. CallInv'
    BY <1>0, <1>16, CallKept DEF CloseRequested, chirpVars, objVars, linkVars, devVars, dataVars, ControlTypeOK
  <2>3. ProcsSound'
    BY <1>0, <1>16 DEF CloseRequested, chirpVars, objVars, linkVars, devVars, dataVars, ProcsSound
  <2> QED BY <2>1, <2>2, <2>3
<1>17. CASE NotFound
  <2>1. NoStrayAnswer'
    BY <1>0, <1>17, QuietLink DEF NotFound, vars, chirpVars, objVars, linkVars, devVars, dataVars, blockVars
  <2>2. CallInv'
    BY <1>0, <1>17, CallKept DEF NotFound, vars, chirpVars, objVars, linkVars, devVars, dataVars, blockVars, ControlTypeOK
  <2>3. ProcsSound'
    BY <1>0, <1>17 DEF NotFound, vars, chirpVars, objVars, linkVars, devVars, dataVars, blockVars, ProcsSound
  <2> QED BY <2>1, <2>2, <2>3
<1>18. CASE \E n \in ReadSizes, buffer \in BOOLEAN : GetBlocks(n, buffer)
  <2>1. NoStrayAnswer'
    BY <1>0, <1>18, QuietLink DEF GetBlocks, chirpVars, objVars, linkVars, devVars
  <2>2. CallInv'
    BY <1>0, <1>18, CallKept DEF GetBlocks, chirpVars, objVars, linkVars, devVars, ControlTypeOK
  <2>3. ProcsSound'
    BY <1>0, <1>18 DEF GetBlocks, chirpVars, objVars, linkVars, devVars, ProcsSound
  <2> QED BY <2>1, <2>2, <2>3
<1>19. CASE ResetFrameWait
  <2>1. NoStrayAnswer'
    BY <1>0, <1>19, QuietLink DEF ResetFrameWait, chirpVars, objVars, linkVars, devVars, blockVars
  <2>2. CallInv'
    BY <1>0, <1>19, CallKept DEF ResetFrameWait, chirpVars, objVars, linkVars, devVars, blockVars, ControlTypeOK
  <2>3. ProcsSound'
    BY <1>0, <1>19 DEF ResetFrameWait, chirpVars, objVars, linkVars, devVars, blockVars, ProcsSound
  <2> QED BY <2>1, <2>2, <2>3
<1>20. ASSUME NEW c \in Callers, Enter(c) PROVE NoStrayAnswer' /\ CallInv' /\ ProcsSound'
  <2>1. NoStrayAnswer'
    BY <1>0, <1>20, QuietLink DEF Enter, chirpVars, objVars, linkVars, devVars, dataVars
  <2>2. CallInv'
    BY <1>0, <1>20, CallKept DEF Enter, Goto, chirpVars, objVars, linkVars, devVars, dataVars, ControlTypeOK
  <2>3. ProcsSound'
    BY <1>0, <1>20 DEF Enter, chirpVars, objVars, linkVars, devVars, dataVars, ProcsSound
  <2> QED BY <2>1, <2>2, <2>3
<1>21. ASSUME NEW c \in Callers, UpdateFrame(c) PROVE NoStrayAnswer' /\ CallInv' /\ ProcsSound'
  <2>1. NoStrayAnswer'
    BY <1>0, <1>w, <1>21, QuietLink DEF UpdateFrame
  <2>2. CallInv'
    <3>1. CASE UNCHANGED <<chirp_access_mutex_, call>>
      BY <1>0, <1>21, <3>1, CallKept DEF UpdateFrame, Goto, ControlTypeOK, Lock
    <3>2. CASE Goto(c, "updating") /\ Lock(c) /\ StartCall(AsyncReq(get_frame_proc_))
      <4>1. call'.phase # "wait" /\ ~call'.ok
        BY <3>2, StartCallPhase
      <4>2. main' # "resolving"
        BY <1>m, <3>2 DEF Lock
      <4>3. \A d \in Senders : pc'[d] \notin {"resolving", "calling"}
        BY <1>0, <1>o, <3>2 DEF Lock, Goto, ControlTypeOK
      <4> QED BY <4>1, <4>2, <4>3 DEF CallInv
    <3> QED BY <1>21, <3>1, <3>2 DEF UpdateFrame
  <2>3. ProcsSound'
    BY <1>0, <1>21 DEF UpdateFrame, objVars, linkVars, devVars, dataVars, ProcsSound
  <2> QED BY <2>1, <2>2, <2>3
<1>22. ASSUME NEW c \in Callers, FrameRequested(c) PROVE NoStrayAnswer' /\ CallInv' /\ ProcsSound'
  <2>1. NoStrayAnswer'
    BY <1>0, <1>w, <1>22, QuietLink DEF FrameRequested
  <2>2. CallInv'
    BY <1>0, <1>22, CallEnded DEF FrameRequested, Unlock
  <2>3. ProcsSound'
    BY <1>0, <1>22 DEF FrameRequested, chirpVars, objVars, linkVars, devVars, blockVars, ProcsSound
  <2> QED BY <2>1, <2>2, <2>3
<1>23. ASSUME NEW t \in Senders, SendCommand(t) PROVE NoStrayAnswer' /\ CallInv' /\ ProcsSound'
  <2>1. NoStrayAnswer'
    BY <1>0, <1>w, <1>23, QuietLink DEF SendCommand
  <2>2. CallInv'
    <3>1. CASE UNCHANGED <<chirp_access_mutex_, call>> /\ Leave(t, "idle", FALSE)
      BY <1>0, <1>23, <3>1, CallKept DEF SendCommand, Leave, Goto, ControlTypeOK
    <3>2. CASE Lock(t) /\ name' = name
      <4>1. main' # "resolving"
        <5>1. pc'[t] \in {"resolving", "calling"}
          BY <1>0, <1>23, <3>2 DEF SendCommand, Lock, Goto, ControlTypeOK
        <5> QED BY <1>o, <5>1
      <4>2. \A d \in Senders : pc'[d] \in {"resolving", "calling"} => d = t
        BY <1>o, <3>2 DEF Lock
      <4>3. name[t] \in Names
        BY <1>0, <1>23 DEF SendCommand, NamesKnown
      <4>4. CASE proc_cache_[name[t]] = NoProc
        <5>1. Goto(t, "resolving") /\ StartCall(EnumReq(name[t]))
          BY <1>23, <3>2, <4>4 DEF SendCommand, Lock
        <5>2. pc'[t] = "resolving" /\ call'.phase # "wait" /\ ~call'.ok /\ call'.req = EnumReq(name'[t])
          BY <1>0, <3>2, <5>1, StartCallPhase DEF Goto, ControlTypeOK
        <5> QED BY <4>1, <4>2, <5>2 DEF CallInv
      <4>5. CASE proc_cache_[name[t]] # NoProc
        <5>1. Goto(t, "calling") /\ StartCall(SyncReq(name[t], proc_cache_[name[t]]))
          BY <1>23, <3>2, <4>5 DEF SendCommand, Lock
        <5>2. proc_cache_[name[t]] = DevTable[name[t]]
          BY <1>0, <4>3, <4>5 DEF ProcsSound
        <5>3. /\ pc'[t] = "calling" /\ call'.phase # "wait" /\ ~call'.ok
              /\ call'.req = SyncReq(name'[t], DevTable[name'[t]])
          BY <1>0, <3>2, <5>1, <5>2, StartCallPhase DEF Goto, ControlTypeOK
        <5> QED BY <3>2, <4>1, <4>2, <4>5, <5>2, <5>3 DEF CallInv
      <4> QED BY <4>4, <4>5
    <3> QED BY <1>23, <3>1, <3>2 DEF SendCommand
  <2>3. ProcsSound'
    BY <1>0, <1>23 DEF SendCommand, objVars, linkVars, devVars, dataVars, ProcsSound
  <2> QED BY <2>1, <2>2, <2>3
<1>24. ASSUME NEW t \in Senders, Resolved(t) PROVE NoStrayAnswer' /\ CallInv' /\ ProcsSound'
  <2>1. NoStrayAnswer'
    BY <1>0, <1>w, <1>24, QuietLink DEF Resolved
  <2>2. CallInv'
    <3>1. name[t] \in Names /\ chirp_access_mutex_ = t
      BY <1>0, <1>b, <1>24 DEF Resolved, NamesKnown
    <3>2. call.ok => ChirpProc(call.val) = DevTable[name[t]]
      <4>1. call.req = EnumReq(name[t]) /\ Synchronous(call.req)
        BY <1>0, <1>24 DEF Resolved, CallInv, EnumReq, Synchronous
      <4>2. call.ok => call.val = RightAnswer(call.req)
        BY <1>0, <1>24, <4>1 DEF CallInv
      <4>3. ChirpProc(DevTable[name[t]]) = DevTable[name[t]]
        BY <3>1, Table
      <4> QED BY <4>1, <4>2, <4>3 DEF EnumReq, RightAnswer
    <3>3. CASE call.ok /\ ChirpProc(call.val) >= 0
      <4>1. /\ StartCall(SyncReq(name[t], DevTable[name[t]])) /\ Goto(t, "calling")
            /\ name' = name /\ chirp_access_mutex_' = t
        BY <1>24, <3>1, <3>2, <3>3 DEF Resolved
      <4>2. DevTable[name[t]] # NoProc
        BY <3>2, <3>3 DEF NoProc
      <4>3. /\ pc'[t] = "calling" /\ call'.phase # "wait" /\ ~call'.ok
            /\ call'.req = SyncReq(name'[t], DevTable[name'[t]])
        BY <1>0, <4>1, StartCallPhase DEF Goto, ControlTypeOK
      <4>4. main' # "resolving" /\ \A d \in Senders : pc'[d] \in {"resolving", "calling"} => d = t
        BY <1>o, <4>1, <4>3
      <4> QED BY <4>1, <4>2, <4>3, <4>4 DEF CallInv
    <3>4. CASE ~(call.ok /\ ChirpProc(call.val) >= 0)
      BY <1>0, <1>24, <3>4, CallEnded DEF Resolved, Unlock
    <3> QED BY <3>3, <3>4
  <2>3. ProcsSound'
    <3>1. name[t] \in Names /\ chirp_access_mutex_ = t
      BY <1>0, <1>b, <1>24 DEF Resolved, NamesKnown
    <3>2. call.ok => ChirpProc(call.val) = DevTable[name[t]]
      <4>1. call.req = EnumReq(name[t]) /\ Synchronous(call.req)
        BY <1>0, <1>24 DEF Resolved, CallInv, EnumReq, Synchronous
      <4>2. call.ok => call.val = RightAnswer(call.req)
        BY <1>0, <1>24, <4>1 DEF CallInv
      <4>3. ChirpProc(DevTable[name[t]]) = DevTable[name[t]]
        BY <3>1, Table
      <4> QED BY <4>1, <4>2, <4>3 DEF EnumReq, RightAnswer
    <3> QED BY <1>0, <1>24, <3>1, <3>2 DEF Resolved, ProcsSound, objVars
  <2> QED BY <2>1, <2>2, <2>3
<1>25. ASSUME NEW t \in Senders, CommandReturns(t) PROVE NoStrayAnswer' /\ CallInv' /\ ProcsSound'
  <2>1. NoStrayAnswer'
    BY <1>0, <1>w, <1>25, QuietLink DEF CommandReturns
  <2>2. CallInv'
    BY <1>0, <1>25, CallEnded DEF CommandReturns, Unlock
  <2>3. ProcsSound'
    BY <1>0, <1>25 DEF CommandReturns, chirpVars, objVars, linkVars, devVars, dataVars, ProcsSound
  <2> QED BY <2>1, <2>2, <2>3
<1>26. ASSUME NEW c \in Callers, CopyVersion(c) PROVE NoStrayAnswer' /\ CallInv' /\ ProcsSound'
  <2>1. NoStrayAnswer'
    BY <1>0, <1>26, QuietLink DEF CopyVersion, chirpVars, objVars, linkVars, devVars, dataVars
  <2>2. CallInv'
    BY <1>0, <1>26, CallKept DEF CopyVersion, Goto, chirpVars, objVars, linkVars, devVars, dataVars, ControlTypeOK
  <2>3. ProcsSound'
    BY <1>0, <1>26 DEF CopyVersion, chirpVars, objVars, linkVars, devVars, dataVars, ProcsSound
  <2> QED BY <2>1, <2>2, <2>3
<1>27. CASE DevAnswers
  <2>1. NoStrayAnswer'
    <3> DEFINE r == Head(toDev)
    <3>1. /\ 1 \in DOMAIN toDev /\ r = toDev[1] /\ r \in Request
          /\ \A i \in DOMAIN toDev' : /\ i \in Int /\ i + 1 \in DOMAIN toDev /\ i + 1 # 1
                                      /\ toDev'[i] = toDev[i + 1]
      BY <1>0, <1>27, TailElements DEF DevAnswers, LinkTypeOK
    <3>2. \A i, j \in DOMAIN toDev' : Synchronous(toDev'[i]) /\ Synchronous(toDev'[j]) => i = j
      <4> SUFFICES ASSUME NEW i \in DOMAIN toDev', NEW j \in DOMAIN toDev',
                          Synchronous(toDev'[i]), Synchronous(toDev'[j])
                   PROVE  i = j
        OBVIOUS
      <4>1. i + 1 = j + 1
        BY <1>0, <3>1 DEF NoStrayAnswer
      <4> QED BY <3>1, <4>1
    <3>3. Synchronous(r) => /\ \A i \in DOMAIN toDev' : ~Synchronous(toDev'[i])
                            /\ \A i \in DOMAIN toHost : toHost[i].type # "RSP"
                            /\ call.phase = "wait" /\ r = call.req
      BY <1>0, <3>1 DEF NoStrayAnswer
    <3>4. /\ call' = call
          /\ \A i \in DOMAIN toDev' : Synchronous(toDev'[i]) =>
               call'.phase = "wait" /\ toDev'[i] = call'.req
      BY <1>0, <1>27, <3>1 DEF DevAnswers, NoStrayAnswer
    <3>5. CASE Answer(r) = <<>>
      <4>1. toHost' = toHost
        BY <1>0, <1>27, <3>5 DEF DevAnswers, LinkTypeOK
      <4> QED BY <1>0, <3>1, <3>2, <3>4, <4>1 DEF NoStrayAnswer
    <3>6. ASSUME NEW m \in Message, Answer(r) = <<m>>,
                 m.type = "RSP" => Synchronous(r) /\ m.req = r /\ m.val = RightAnswer(r)
          PROVE  NoStrayAnswer'
      <4>1. toHost' = Append(toHost, m)
        <5>1. toHost' = toHost \o <<m>>
          BY <1>27, <3>6 DEF DevAnswers
        <5> QED BY <1>0, <5>1 DEF LinkTypeOK
      <4>2. /\ DOMAIN toHost' = 1..(Len(toHost) + 1) /\ DOMAIN toHost = 1..Len(toHost)
            /\ Len(toHost) \in Nat
            /\ \A i \in DOMAIN toHost : toHost'[i] = toHost[i]
            /\ toHost'[Len(toHost) + 1] = m
        BY <1>0, <4>1, AppendElements DEF LinkTypeOK
      <4>3. CASE m.type = "RSP"
        <5>1. \A i \in DOMAIN toHost' : toHost'[i].type = "RSP" => i = Len(toHost) + 1
          BY <3>3, <3>6, <4>2, <4>3
        <5>2. m.req = call'.req /\ m.val = RightAnswer(call'.req) /\ call'.phase = "wait"
          BY <3>3, <3>4, <3>6, <4>3
        <5> QED BY <3>3, <3>4, <3>6, <4>2, <4>3, <5>1, <5>2 DEF NoStrayAnswer
      <4>4. CASE m.type # "RSP"
        <5>1. \A i \in DOMAIN toHost' : toHost'[i].type = "RSP" =>
                i \in DOMAIN toHost /\ toHost'[i] = toHost[i]
          BY <4>2, <4>4
        <5> QED BY <1>0, <3>1, <3>2, <3>4, <5>1 DEF NoStrayAnswer
      <4> QED BY <4>3, <4>4
    <3> QED BY <3>1, <3>5, <3>6, AnswerMatches
  <2>2. CallInv'
    BY <1>0, <1>27, CallKept DEF DevAnswers, chirpVars, objVars, dataVars, ControlTypeOK
  <2>3. ProcsSound'
    BY <1>0, <1>27 DEF DevAnswers, chirpVars, objVars, dataVars, ProcsSound
  <2> QED BY <2>1, <2>2, <2>3
<1>28. CASE DevReports
  <2>1. NoStrayAnswer'
    <3>1. PICK m \in Message : toHost' = Append(toHost, m) /\ m.type # "RSP"
      <4>1. xdata' \in Int
        BY <1>28 DEF DevReports, SafeInv, TypeInv, TypeOK, CountersTypeOK
      <4>2. \A n, k \in 0..MaxBlobs :
              /\ Xdata("CCB1", xdata', n, 0) \in Message /\ Xdata("CCB1", xdata', n, 0).type # "RSP"
              /\ Xdata("CCB2", xdata', n, k) \in Message /\ Xdata("CCB2", xdata', n, k).type # "RSP"
        BY <4>1, RequestTypes, Bounds DEF Xdata, Message
      <4> QED BY <1>28, <4>2 DEF DevReports
    <3>2. /\ DOMAIN toHost' = 1..(Len(toHost) + 1) /\ DOMAIN toHost = 1..Len(toHost)
          /\ Len(toHost) \in Nat
          /\ \A i \in DOMAIN toHost : toHost'[i] = toHost[i]
          /\ toHost'[Len(toHost) + 1] = m
      BY <1>0, <3>1, AppendElements DEF LinkTypeOK
    <3>3. \A i \in DOMAIN toHost' : toHost'[i].type = "RSP" =>
            i \in DOMAIN toHost /\ toHost'[i] = toHost[i]
      BY <3>1, <3>2
    <3> QED BY <1>0, <1>28, <3>3 DEF DevReports, NoStrayAnswer
  <2>2. CallInv'
    BY <1>0, <1>28, CallKept DEF DevReports, chirpVars, objVars, dataVars, ControlTypeOK
  <2>3. ProcsSound'
    BY <1>0, <1>28 DEF DevReports, chirpVars, objVars, dataVars, ProcsSound
  <2> QED BY <2>1, <2>2, <2>3
<1>29. CASE UNCHANGED vars
  <2>1. NoStrayAnswer'
    BY <1>0, <1>29, QuietLink DEF vars, chirpVars, objVars, linkVars, devVars, dataVars, blockVars
  <2>2. CallInv'
    BY <1>0, <1>29, CallKept DEF vars, chirpVars, objVars, linkVars, devVars, dataVars, blockVars, ControlTypeOK
  <2>3. ProcsSound'
    BY <1>0, <1>29 DEF vars, chirpVars, objVars, linkVars, devVars, dataVars, blockVars, ProcsSound
  <2> QED BY <2>1, <2>2, <2>3
<1> QED
  BY <1>1, <1>2, <1>3, <1>4, <1>5, <1>6, <1>7, <1>8, <1>9, <1>10, <1>11, <1>12, <1>13, <1>14, <1>15, <1>16, <1>17, <1>18, <1>19, <1>20, <1>21, <1>22, <1>23, <1>24, <1>25, <1>26, <1>27, <1>28, <1>29
     DEF Next, ChirpCall, MainThread, InterpreterThread, Caller, Command, Senders

-----------------------------------------------------------------------------
LEMMA AnswerInvariant == ASSUME OnTime PROVE Spec => [](SafeInv /\ AnswerInv)
<1>1. Init => SafeInv /\ AnswerInv
  BY InitSafe, InitAnswer
<1>2. SafeInv /\ AnswerInv /\ [Next]_vars => (SafeInv /\ AnswerInv)'
  BY NextSafe, NextAnswer
<1> QED BY <1>1, <1>2, PTL DEF Spec

LEMMA OwnAnswer == SafeInv /\ AnswerInv => CommandAnswered
<1> SUFFICES ASSUME SafeInv, AnswerInv, NEW c \in Senders, pc[c] = "calling", Returned, call.ok
             PROVE  DevTable[name[c]] # NoProc /\ call.val = DevResult[DevTable[name[c]]]
  BY DEF CommandAnswered
<1>1. call.req = SyncReq(name[c], DevTable[name[c]]) /\ DevTable[name[c]] # NoProc
  BY DEF AnswerInv, CallInv
<1>2. call.val = RightAnswer(call.req)
  BY <1>1 DEF AnswerInv, CallInv, SyncReq, Synchronous, Returned
<1> QED BY <1>1, <1>2 DEF SyncReq, RightAnswer

\* send_command and Chirp::call: with a link that is on time, the response call()
\* takes is the answer to the command its caller sent, whatever other callers and
\* the interpreter thread do in between.
THEOREM Answered == ASSUME OnTime PROVE Spec => []CommandAnswered
BY AnswerInvariant, OwnAnswer, PTL

\* send_command and init: with a link that is on time, the procedure index kept
\* for a name is the one Pixy has for it.
THEOREM ProcsRight == ASSUME OnTime PROVE Spec => []ProcsSound
<1>1. AnswerInv => ProcsSound
  BY DEF AnswerInv
<1> QED BY AnswerInvariant, <1>1, PTL

-----------------------------------------------------------------------------
(***************************************************************************)
(* What is proved of the data a PixyInterpreter receives: the blocks it    *)
(* keeps are the newest ones, none that the application was not given is   *)
(* called stale if it asks for all, and no more frames are on their way    *)
(* than were asked for.                                                    *)
(***************************************************************************)

-----------------------------------------------------------------------------
(* The buffer.                                                             *)

\* How many blocks of n are kept.
Kept(n) == IF n > PIXY_BLOCK_CAPACITY THEN PIXY_BLOCK_CAPACITY ELSE n

LEMMA NewestElements ==
  ASSUME NEW S, NEW s \in Seq(S)
  PROVE  /\ Newest(s) \in Seq(S) /\ Len(Newest(s)) = Kept(Len(s)) /\ Kept(Len(s)) \in 0..Len(s)
         /\ \A i \in 1..Kept(Len(s)) : Newest(s)[i] = s[Len(s) - Kept(Len(s)) + i]
<1> DEFINE lo == IF Len(s) > PIXY_BLOCK_CAPACITY THEN Len(s) - PIXY_BLOCK_CAPACITY + 1 ELSE 1
<1>1. PIXY_BLOCK_CAPACITY \in Nat \ {0} /\ Len(s) \in Nat
  BY CapacityAssumption
<1>2. lo \in Nat \ {0} /\ Kept(Len(s)) \in 0..Len(s) /\ lo = Len(s) - Kept(Len(s)) + 1
  BY <1>1 DEF Kept
<1>3. \A i \in lo..Len(s) : s[i] \in S
  BY <1>1, <1>2
<1>4. Newest(s) = SubSeq(s, lo, Len(s))
  BY Zenon DEF Newest
<1> HIDE DEF lo
<1>5. /\ SubSeq(s, lo, Len(s)) \in Seq(S)
      /\ Len(SubSeq(s, lo, Len(s))) = IF lo <= Len(s) THEN Len(s) - lo + 1 ELSE 0
      /\ \A i \in 1..Len(s) - lo + 1 : SubSeq(s, lo, Len(s))[i] = s[lo + i - 1]
  BY <1>1, <1>2, <1>3, SubSeqProperties
<1>6. Len(Newest(s)) = Kept(Len(s))
  BY <1>1, <1>2, <1>4, <1>5
<1>7. ASSUME NEW i \in 1..Kept(Len(s)) PROVE Newest(s)[i] = s[Len(s) - Kept(Len(s)) + i]
  <2>1. i \in 1..Len(s) - lo + 1 /\ lo + i - 1 = Len(s) - Kept(Len(s)) + i
    BY <1>1, <1>2
  <2> QED BY <1>4, <1>5, <2>1
<1> QED BY <1>2, <1>4, <1>5, <1>6, <1>7

LEMMA NewestOfNothing == Newest(<<>>) = <<>>
<1> DEFINE s == <<>>
<1>1. s \in Seq({}) /\ Len(s) = 0
  BY EmptySeq
<1> HIDE DEF s
<1>2. Newest(s) \in Seq({}) /\ Len(Newest(s)) = 0
  <2>1. Newest(s) \in Seq({}) /\ Len(Newest(s)) = Kept(Len(s)) /\ Kept(Len(s)) \in 0..Len(s)
    BY <1>1, NewestElements, Zenon
  <2> QED BY <1>1, <2>1
<1>3. Newest(s) = <<>>
  BY <1>2, EmptySeq
<1> QED BY <1>3 DEF s

\* One more block: the newest of what was added so far and this one.
LEMMA PushNewest ==
  ASSUME NEW S, NEW s \in Seq(S), NEW b \in S
  PROVE  PushBlock(Newest(s), b) = Newest(Append(s, b))
<1> DEFINE n == Len(s)  p == PushBlock(Newest(s), b)  q == Newest(Append(s, b))
<1>1. PIXY_BLOCK_CAPACITY \in Nat \ {0} /\ n \in Nat
  BY CapacityAssumption
<1>2. /\ Append(s, b) \in Seq(S) /\ Len(Append(s, b)) = n + 1
      /\ \A i \in 1..n : Append(s, b)[i] = s[i]
      /\ Append(s, b)[n + 1] = b
  BY AppendProperties
<1>3. /\ Newest(s) \in Seq(S) /\ Len(Newest(s)) = Kept(n)
      /\ \A i \in 1..Kept(n) : Newest(s)[i] = s[n - Kept(n) + i]
  BY NewestElements
<1>4. /\ q \in Seq(S) /\ Len(q) = Kept(n + 1)
      /\ \A i \in 1..Kept(n + 1) : q[i] = Append(s, b)[n + 1 - Kept(n + 1) + i]
  <2>1. ASSUME NEW t \in Seq(S), Len(t) = n + 1
        PROVE  /\ Newest(t) \in Seq(S) /\ Len(Newest(t)) = Kept(n + 1)
               /\ \A i \in 1..Kept(n + 1) : Newest(t)[i] = t[n + 1 - Kept(n + 1) + i]
    BY <2>1, NewestElements
  <2> QED BY <1>2, <2>1
<1>5. /\ p \in Seq(S) /\ Len(p) = Kept(n + 1)
      /\ \A i \in 1..Kept(n + 1) : p[i] = Append(s, b)[n + 1 - Kept(n + 1) + i]
  <2>1. CASE n >= PIXY_BLOCK_CAPACITY
    <3>1. Kept(n) = PIXY_BLOCK_CAPACITY /\ Kept(n + 1) = PIXY_BLOCK_CAPACITY
      BY <1>1, <2>1 DEF Kept
    <3>2. Newest(s) # <<>> /\ p = Append(Tail(Newest(s)), b)
      BY <1>1, <1>3, <3>1 DEF PushBlock
    <3>3. /\ Tail(Newest(s)) \in Seq(S) /\ Len(Tail(Newest(s))) = Kept(n) - 1
          /\ \A i \in 1..Kept(n) - 1 : Tail(Newest(s))[i] = s[n - Kept(n) + (i + 1)]
      BY <1>1, <1>3, <3>1, <3>2, HeadTailProperties
    <3>4. /\ p \in Seq(S) /\ Len(p) = Kept(n)
          /\ \A i \in 1..Kept(n) - 1 : p[i] = s[n - Kept(n) + (i + 1)]
          /\ p[Kept(n)] = b
      BY <1>1, <3>1, <3>2, <3>3, AppendProperties
    <3>5. ASSUME NEW i \in 1..Kept(n) PROVE p[i] = Append(s, b)[n + 1 - Kept(n) + i]
      <4>1. CASE i = Kept(n)
        <5>1. n + 1 - Kept(n) + i = n + 1
          BY <1>1, <3>1, <4>1
        <5> QED BY <1>2, <3>4, <4>1, <5>1
      <4>2. CASE i # Kept(n)
        <5>1. i \in 1..Kept(n) - 1 /\ n - Kept(n) + (i + 1) \in 1..n
              /\ n + 1 - Kept(n) + i = n - Kept(n) + (i + 1)
          BY <1>1, <2>1, <3>1, <4>2
        <5> QED BY <1>2, <3>4, <5>1
      <4> QED BY <4>1, <4>2
    <3> QED BY <3>1, <3>4, <3>5
  <2>2. CASE n < PIXY_BLOCK_CAPACITY
    <3>1. Kept(n) = n /\ Kept(n + 1) = n + 1
      BY <1>1, <2>2 DEF Kept
    <3>2. p = Append(Newest(s), b)
      BY <1>1, <1>3, <2>2, <3>1 DEF PushBlock
    <3>3. /\ p \in Seq(S) /\ Len(p) = n + 1
          /\ \A i \in 1..n : p[i] = Newest(s)[i]
          /\ p[n + 1] = b
      BY <1>3, <3>1, <3>2, AppendProperties
    <3>4. ASSUME NEW i \in 1..n + 1 PROVE p[i] = Append(s, b)[i]
      <4>1. CASE i = n + 1
        BY <1>2, <3>3, <4>1
      <4>2. CASE i # n + 1
        <5>1. i \in 1..n /\ n - n + i = i
          BY <1>1, <4>2
        <5> QED BY <1>2, <1>3, <3>1, <3>3, <5>1
      <4> QED BY <4>1, <4>2
    <3>5. ASSUME NEW i \in 1..Kept(n + 1)
          PROVE  p[i] = Append(s, b)[n + 1 - Kept(n + 1) + i]
      <4>1. i \in 1..n + 1 /\ n + 1 - Kept(n + 1) + i = i
        BY <1>1, <3>1
      <4> QED BY <3>4, <4>1
    <3>6. Len(p) = Kept(n + 1)
      BY <3>1, <3>3
    <3> QED BY <3>3, <3>5, <3>6
  <2>3. n >= PIXY_BLOCK_CAPACITY \/ n < PIXY_BLOCK_CAPACITY
    BY <1>1
  <2> QED BY <2>1, <2>2, <2>3, Zenon
<1> HIDE DEF p, q
<1>6. p = q
  BY <1>4, <1>5, SeqEqual
<1> QED BY <1>6 DEF p, q

\* The loop over the new blocks: the newest of the old ones and the new ones.
LEMMA AddNewest ==
  ASSUME NEW S, NEW s \in Seq(S), NEW new \in Seq(S)
  PROVE  AddBlocks(Newest(s), new) = Newest(s \o new)
<1> DEFINE added == CHOOSE f : f = [k \in 0..Len(new) |-> IF k = 0 THEN Newest(s) ELSE PushBlock(f[k - 1], new[k])]
           upTo(k) == s \o SubSeq(new, 1, k)
           T == {k \in 0..Len(new) : added[k] = Newest(upTo(k))}
<1>1. Len(new) \in Nat /\ Len(new) \in Int /\ 0 \in Int
  OBVIOUS
<1>2. AddBlocks(Newest(s), new) = added[Len(new)]
  BY Zenon DEF AddBlocks
<1>3. \E f : f = [k \in 0..Len(new) |-> IF k = 0 THEN Newest(s) ELSE PushBlock(f[k - 1], new[k])]
  <2>1. \E f : Adding!IsIteration(f, new, Newest(s), 0, Len(new))
    BY <1>1, Adding!IterationExists
  <2> QED BY <2>1, Zenon DEF Adding!IsIteration
<1>4. added = [k \in 0..Len(new) |-> IF k = 0 THEN Newest(s) ELSE PushBlock(added[k - 1], new[k])]
  BY <1>3, Zenon
<1> HIDE DEF added
<1>5. 0 \in T
  <2>1. SubSeq(new, 1, 0) = <<>> /\ s \o <<>> = s
    BY SubSeqEmpty, ConcatEmptySeq
  <2>2. 0 \in 0..Len(new) /\ added[0] = Newest(s)
    BY <1>1, <1>4
  <2> QED BY <2>1, <2>2
<1>6. ASSUME NEW k \in 1..Len(new), k - 1 \in T PROVE k \in T
  <2>1. /\ SubSeq(new, 1, k - 1) \in Seq(S) /\ new[k] \in S /\ <<new[k]>> \in Seq(S)
    <3>1. \A i \in 1..k - 1 : new[i] \in S
      BY <1>1
    <3> QED BY <1>1, <3>1, SubSeqProperties
  <2>2. SubSeq(new, 1, k) = SubSeq(new, 1, k - 1) \o <<new[k]>>
    BY <1>1, SubSeqRecursiveSecond
  <2>3. upTo(k) = upTo(k - 1) \o <<new[k]>> /\ upTo(k - 1) \in Seq(S)
    BY <2>1, <2>2, ConcatAssociative, ConcatProperties
  <2>4. upTo(k) = Append(upTo(k - 1), new[k])
    BY <2>1, <2>3, AppendIsConcat
  <2>5. added[k] = PushBlock(added[k - 1], new[k]) /\ added[k - 1] = Newest(upTo(k - 1))
    BY <1>1, <1>4, <1>6
  <2>6. added[k] = Newest(upTo(k))
    BY <2>1, <2>3, <2>4, <2>5, PushNewest
  <2> QED BY <2>6
<1>7. Len(new) \in T
  <2> HIDE DEF T
  <2>1. Len(new) \in 0..Len(new) /\ \A k \in 0 + 1..Len(new) : k - 1 \in T => k \in T
    BY <1>1, <1>6
  <2>2. \A k \in 0..Len(new) : k \in T
    BY <1>1, <1>5, <2>1, Adding!RangeInduction
  <2> QED BY <2>1, <2>2
<1>8. SubSeq(new, 1, Len(new)) = new
  BY SubSeqFull
<1> QED BY <1>2, <1>7, <1>8

-----------------------------------------------------------------------------
(* What a step does to the blocks.                                         *)

Kind == {"normal", "color code"}
Block == Int \X Kind \X Nat

LEMMA FunctionIsSequence ==
  ASSUME NEW S, NEW n \in Nat, NEW f \in [1..n -> S]
  PROVE  f \in Seq(S)
BY SeqDef

LEMMA BlobsType ==
  ASSUME NEW m \in Message, NEW kind \in Kind, NEW count \in Nat
  PROVE  Blobs(m, kind, count) \in Seq(Block)
<1>1. m.val \in Int
  BY DEF Message
<1>2. \A i \in 1..count : i \in Nat
  OBVIOUS
<1>3. \A i \in 1..count : <<m.val, kind, i>> \in Block
  BY <1>1, <1>2, Zenon DEF Block
<1>4. [i \in 1..count |-> <<m.val, kind, i>>] \in [1..count -> Block]
  BY <1>3
<1> QED BY <1>4, FunctionIsSequence, Zenon DEF Blobs

BlockInv == BlocksAreNewest /\ since \in Seq(Block)

LEMMA BlockSteps ==
  [Next]_vars => \/ UNCHANGED blockVars
                 \/ \E n \in ReadSizes, buffer \in BOOLEAN : GetBlocks(n, buffer)
                 \/ toHost # <<>> /\ handleChirp(Head(toHost))
BY DEF Next, vars, dataVars, ChirpCall, MainThread, InterpreterThread, Caller, Command,
       Send, SendFails, TakeResponse, HandleWhileWaiting, ReceiveFails,
       Open, Connected, Opened, CloseBegins, Joined, Closed, CloseRequested, NotFound,
       InterpreterChecks, InterpreterLocks, InterpreterServices, InterpreterExits,
       Enter, UpdateFrame, FrameRequested, SendCommand, Resolved, CommandReturns, CopyVersion,
       ResetFrameWait, DevAnswers, DevReports

LEMMA InitBlocks == Init => BlockInv
<1> SUFFICES ASSUME Init PROVE BlockInv
  OBVIOUS
<1>1. blocks_ = <<>> /\ since = <<>>
  BY DEF Init
<1>2. <<>> \in Seq(Block)
  BY EmptySeq
<1> QED BY <1>1, <1>2, NewestOfNothing DEF BlockInv, BlocksAreNewest

LEMMA NextBlocks == TypeInv /\ BlockInv /\ [Next]_vars => BlockInv'
<1> SUFFICES ASSUME LinkTypeOK, BlocksAreNewest, since \in Seq(Block), [Next]_vars
             PROVE  BlockInv'
  BY DEF TypeInv, TypeOK, BlockInv
<1>1. CASE UNCHANGED blockVars
  BY <1>1 DEF blockVars, BlockInv, BlocksAreNewest
<1>2. CASE \E n \in ReadSizes, buffer \in BOOLEAN : GetBlocks(n, buffer)
  BY <1>2 DEF GetBlocks, BlockInv, BlocksAreNewest
<1>3. CASE toHost # <<>> /\ handleChirp(Head(toHost))
  <2> DEFINE m == Head(toHost)
             normal == Blobs(m, "normal", m.n)
             coded == Blobs(m, "color code", m.k)
  <2>1. m \in Message
    BY <1>3, HeadTailProperties DEF LinkTypeOK
  <2>2. normal \in Seq(Block) /\ coded \in Seq(Block)
    <3>1. m.n \in Nat /\ m.k \in Nat
      BY <2>1 DEF Message
    <3>2. "normal" \in Kind /\ "color code" \in Kind
      BY Zenon DEF Kind
    <3> QED BY <2>1, <3>1, <3>2, BlobsType, Zenon
  <2>3. CASE UNCHANGED blockVars
    BY <2>3, <1>1
  <2>4. CASE interpret_CCB1(m)
    <3>1. AddBlocks(blocks_, normal) = Newest(since \o normal) /\ since \o normal \in Seq(Block)
      BY <2>2, AddNewest, ConcatProperties DEF BlocksAreNewest
    <3> QED BY <2>4, <3>1 DEF interpret_CCB1, BlockInv, BlocksAreNewest
  <2>5. CASE interpret_CCB2(m)
    <3>1. <<>> \in Seq(Block) /\ Newest(<<>>) = <<>> /\ <<>> \o coded = coded
      BY <2>2, EmptySeq, NewestOfNothing, ConcatEmptySeq
    <3>2. AddBlocks(<<>>, coded) = Newest(coded)
      BY <2>2, <3>1, AddNewest
    <3>3. /\ AddBlocks(AddBlocks(<<>>, coded), normal) = Newest(coded \o normal)
          /\ coded \o normal \in Seq(Block)
      BY <2>2, <3>2, AddNewest, ConcatProperties
    <3> QED BY <2>5, <3>3 DEF interpret_CCB2, BlockInv, BlocksAreNewest
  <2> QED
    BY <1>3, <2>3, <2>4, <2>5 DEF handleChirp, interpret_BA81, dataVars
<1> QED BY <1>1, <1>2, <1>3, BlockSteps

LEMMA BlockInvariant == Spec => [](TypeInv /\ BlockInv)
<1>1. Init => TypeInv /\ BlockInv
  BY InitType, InitBlocks
<1>2. TypeInv /\ BlockInv /\ [Next]_vars => (TypeInv /\ BlockInv)'
  BY NextType, NextBlocks
<1> QED BY <1>1, <1>2, PTL DEF Spec

\* Whatever reports come in, in whatever order, and whenever the application takes
\* blocks, blocks_ holds the newest of them (pixyinterpreter.cpp: interpret_data).
THEOREM NewestKept == Spec => []BlocksAreNewest
<1>1. BlockInv => BlocksAreNewest
  BY DEF BlockInv
<1> QED BY <1>1, BlockInvariant, PTL

\* The application always asks for as many blocks as blocks_ can hold.
LargeReads == \A n \in ReadSizes : n >= PIXY_BLOCK_CAPACITY

\* blocks_ never holds more, so such a get_blocks copies them all.
LEMMA AllCopied ==
  ASSUME BlockInv, NEW n \in Int, n >= PIXY_BLOCK_CAPACITY
  PROVE  \A i \in DOMAIN blocks_ : blocks_[i] \in Copied(n)
<1>1. PIXY_BLOCK_CAPACITY \in Nat
  BY CapacityAssumption
<1>2. Len(since) \in Nat /\ blocks_ \in Seq(Block) /\ Len(blocks_) = Kept(Len(since))
  BY NewestElements DEF BlockInv, BlocksAreNewest
<1>3. n >= Len(blocks_)
  BY <1>1, <1>2 DEF Kept
<1>4. Copied(n) = {blocks_[i] : i \in 1..Len(blocks_)}
  BY <1>3, Zenon DEF Copied
<1> QED BY <1>2, <1>4

LEMMA NextStale ==
  ASSUME LargeReads, BlockInv, StaleIsRetrieved, [Next]_vars
  PROVE  StaleIsRetrieved'
<1>1. CASE UNCHANGED blockVars
  BY <1>1 DEF blockVars, StaleIsRetrieved
<1>2. ASSUME NEW n \in ReadSizes, NEW buffer \in BOOLEAN, GetBlocks(n, buffer)
      PROVE  StaleIsRetrieved'
  <2>1. CASE n >= 0 /\ buffer
    <3>1. n \in Int /\ n >= PIXY_BLOCK_CAPACITY
      BY InterpreterAssumption DEF LargeReads
    <3>2. \A i \in DOMAIN blocks_ : blocks_[i] \in Copied(n)
      BY <3>1, AllCopied
    <3>3. blocks_' = blocks_ /\ retrieved' = retrieved \cup Copied(n)
      BY <1>2, <2>1 DEF GetBlocks
    <3> QED BY <3>2, <3>3 DEF StaleIsRetrieved
  <2>2. CASE ~(n >= 0 /\ buffer)
    BY <1>2, <2>2 DEF GetBlocks, StaleIsRetrieved
  <2> QED BY <2>1, <2>2
<1>3. CASE toHost # <<>> /\ handleChirp(Head(toHost))
  <2>1. UNCHANGED blockVars \/ blocks_are_new_'
    BY <1>3 DEF handleChirp, interpret_BA81, interpret_CCB1, interpret_CCB2, dataVars
  <2> QED BY <1>1, <2>1 DEF StaleIsRetrieved
<1> QED BY <1>1, <1>2, <1>3, BlockSteps

\* pixyinterpreter.hpp:63: an application that always asks for the whole buffer has
\* been given every block of data that blocks_are_new() calls stale, whatever reports
\* come in and whenever it asks.
THEOREM StaleRetrieved == ASSUME LargeReads PROVE Spec => []StaleIsRetrieved
<1>1. Init => StaleIsRetrieved
  BY DEF Init, StaleIsRetrieved
<1>2. BlockInv /\ StaleIsRetrieved /\ [Next]_vars => StaleIsRetrieved'
  BY NextStale
<1> QED BY <1>1, <1>2, BlockInvariant, PTL DEF Spec

-----------------------------------------------------------------------------
(* Frames on their way: how messages of one type in a queue are counted.   *)

IndicesOf(s, type) == {i \in DOMAIN s : s[i].type = type}
Count(s, type) == Cardinality(IndicesOf(s, type))

LEMMA CountType ==
  ASSUME NEW S, NEW s \in Seq(S), NEW type
  PROVE  IsFiniteSet(IndicesOf(s, type)) /\ Count(s, type) \in Nat
<1>1. IndicesOf(s, type) \in SUBSET (1..Len(s)) /\ Len(s) \in Int /\ 1 \in Int
  BY LenProperties DEF IndicesOf
<1>2. IsFiniteSet(1..Len(s))
  BY <1>1, FS_Interval
<1> QED BY <1>1, <1>2, FS_Subset, FS_CardinalityType DEF Count

LEMMA CountAppend ==
  ASSUME NEW S, NEW s \in Seq(S), NEW e \in S, NEW type
  PROVE  Count(Append(s, e), type) = Count(s, type) + IF e.type = type THEN 1 ELSE 0
<1>1. /\ Len(s) \in Nat /\ DOMAIN s = 1..Len(s) /\ DOMAIN Append(s, e) = 1..Len(s) + 1
      /\ \A i \in 1..Len(s) : Append(s, e)[i] = s[i]
      /\ Append(s, e)[Len(s) + 1] = e
  BY AppendProperties, LenProperties
<1>2. IsFiniteSet(IndicesOf(s, type)) /\ Count(s, type) \in Nat /\ Len(s) + 1 \notin IndicesOf(s, type)
  BY <1>1, CountType DEF IndicesOf
<1>3. CASE e.type = type
  <2>1. IndicesOf(Append(s, e), type) = IndicesOf(s, type) \cup {Len(s) + 1}
    BY <1>1, <1>3 DEF IndicesOf
  <2> QED BY <1>2, <1>3, <2>1, FS_AddElement DEF Count
<1>4. CASE e.type # type
  <2>1. IndicesOf(Append(s, e), type) = IndicesOf(s, type)
    BY <1>1, <1>4 DEF IndicesOf
  <2> QED BY <1>2, <1>4, <2>1 DEF Count
<1> QED BY <1>3, <1>4

LEMMA CountTail ==
  ASSUME NEW S, NEW s \in Seq(S), s # <<>>, NEW type
  PROVE  Count(s, type) = Count(Tail(s), type) + IF Head(s).type = type THEN 1 ELSE 0
<1> DEFINE rest == IndicesOf(s, type) \ {1}
           old == IndicesOf(Tail(s), type)
           shift == [i \in old |-> i + 1]
<1>1. /\ Len(s) \in Nat \ {0} /\ DOMAIN s = 1..Len(s) /\ DOMAIN Tail(s) = 1..Len(s) - 1
      /\ Head(s) = s[1] /\ Tail(s) \in Seq(S)
      /\ \A i \in 1..Len(s) - 1 : Tail(s)[i] = s[i + 1]
  BY HeadTailProperties, LenProperties, EmptySeq
<1>2. shift \in Bijection(old, rest)
  <2>1. \A i \in old : shift[i] = i + 1 /\ i \in Int /\ i + 1 \in rest
    BY <1>1 DEF IndicesOf
  <2>2. \A j \in rest : j - 1 \in old /\ (j - 1) + 1 = j
    BY <1>1 DEF IndicesOf
  <2>3. \A j \in rest : \E i \in old : shift[i] = j
    BY <2>1, <2>2
  <2>4. \A i, j \in old : shift[i] = shift[j] => i = j
    BY <2>1
  <2> HIDE DEF rest, old
  <2>5. shift \in [old -> rest]
    BY <2>1
  <2> QED BY <2>3, <2>4, <2>5 DEF Bijection, Injection, IsInjective, Surjection
<1>3. IsFiniteSet(old) /\ IsFiniteSet(IndicesOf(s, type)) /\ Count(s, type) \in Nat /\ Count(Tail(s), type) \in Nat
  BY <1>1, CountType
<1>4. Cardinality(rest) = Cardinality(old)
  <2> HIDE DEF rest, old, shift
  <2> QED BY <1>2, <1>3, FS_Bijection DEF ExistsBijection
<1>5. Cardinality(rest) = IF 1 \in IndicesOf(s, type) THEN Count(s, type) - 1 ELSE Count(s, type)
  BY <1>3, FS_RemoveElement DEF Count
<1>6. 1 \in IndicesOf(s, type) <=> Head(s).type = type
  BY <1>1 DEF IndicesOf
<1> QED BY <1>3, <1>4, <1>5, <1>6 DEF Count

-----------------------------------------------------------------------------
(* waiting_for_frame_ alone does not bound the frames: it is not           *)
(* initialised while the object is opened, and is set after the request is *)
(* sent.  Until then the thread in update_frame has sent none.             *)

Updating == \E c \in Callers : pc[c] = "updating"
Opening == main \in {"new", "connecting", "resolving"}
Requesting == call.phase = "send" /\ call.req.type = "ASYNC"
Requested == call.phase = "done" /\ call.ok

FrameInv ==
  /\ FramesBounded
  /\ Opening => FramesInFlight <= resets
  /\ Requesting => Updating
  /\ Updating /\ ~Requested => FramesInFlight <= resets

LEMMA InFlight == FramesInFlight = Count(toDev, "ASYNC") + Count(toHost, "FRAME")
BY DEF FramesInFlight, Count, IndicesOf

LEMMA InFlightType ==
  /\ LinkTypeOK => FramesInFlight \in Nat
  /\ LinkTypeOK' => FramesInFlight' \in Nat
<1>1. ASSUME LinkTypeOK PROVE FramesInFlight \in Nat
  <2>1. Count(toDev, "ASYNC") \in Nat /\ Count(toHost, "FRAME") \in Nat
    BY <1>1, CountType DEF LinkTypeOK
  <2> QED BY <2>1, InFlight
<1>2. ASSUME LinkTypeOK' PROVE FramesInFlight' \in Nat
  <2>1. Count(toDev', "ASYNC") \in Nat /\ Count(toHost', "FRAME") \in Nat
    BY <1>2, CountType DEF LinkTypeOK
  <2>2. FramesInFlight' = Count(toDev', "ASYNC") + Count(toHost', "FRAME")
    BY DEF FramesInFlight, Count, IndicesOf
  <2> QED BY <2>1, <2>2
<1> QED BY <1>1, <1>2

\* A message that is taken.
LEMMA Received ==
  ASSUME LinkTypeOK, toHost # <<>>, toHost' = Tail(toHost), toDev' = toDev
  PROVE  FramesInFlight' = FramesInFlight - IF Head(toHost).type = "FRAME" THEN 1 ELSE 0
<1>1. Count(toHost, "FRAME") = Count(Tail(toHost), "FRAME") + IF Head(toHost).type = "FRAME" THEN 1 ELSE 0
  BY CountTail DEF LinkTypeOK
<1>2. Tail(toHost) \in Seq(Message)
  BY HeadTailProperties DEF LinkTypeOK
<1>3. /\ Count(toHost, "FRAME") \in Nat /\ Count(Tail(toHost), "FRAME") \in Nat
      /\ Count(toDev, "ASYNC") \in Nat
  BY <1>2, CountType DEF LinkTypeOK
<1>4. FramesInFlight' = Count(toDev, "ASYNC") + Count(Tail(toHost), "FRAME")
  BY DEF FramesInFlight, Count, IndicesOf
<1> QED BY <1>1, <1>3, <1>4, InFlight

\* A request that is sent.
LEMMA Sent ==
  ASSUME LinkTypeOK, call.req \in Request, toDev' = Append(toDev, call.req), toHost' = toHost
  PROVE  FramesInFlight' = FramesInFlight + IF call.req.type = "ASYNC" THEN 1 ELSE 0
<1>1. Count(Append(toDev, call.req), "ASYNC")
        = Count(toDev, "ASYNC") + IF call.req.type = "ASYNC" THEN 1 ELSE 0
  BY CountAppend DEF LinkTypeOK
<1>2. Count(toHost, "FRAME") \in Nat /\ Count(toDev, "ASYNC") \in Nat
  BY CountType DEF LinkTypeOK
<1>3. FramesInFlight' = Count(Append(toDev, call.req), "ASYNC") + Count(toHost, "FRAME")
  BY DEF FramesInFlight, Count, IndicesOf
<1> QED BY <1>1, <1>2, <1>3, InFlight

\* Pixy answers one request with at most one frame.
LEMMA Answering ==
  ASSUME LinkTypeOK, DevAnswers
  PROVE  FramesInFlight' <= FramesInFlight
<1> DEFINE r == Head(toDev)
<1>1. r \in Request /\ toDev # <<>> /\ Tail(toDev) \in Seq(Request)
  BY HeadTailProperties DEF DevAnswers, LinkTypeOK
<1>2. toDev' = Tail(toDev) /\ toHost' = toHost \o Answer(r)
  BY DEF DevAnswers
<1>3. /\ Count(toDev, "ASYNC") = Count(Tail(toDev), "ASYNC") + IF r.type = "ASYNC" THEN 1 ELSE 0
      /\ Count(Tail(toDev), "ASYNC") \in Nat /\ Count(toHost, "FRAME") \in Nat
  BY <1>1, CountTail, CountType DEF LinkTypeOK
<1>4. FramesInFlight' = Count(Tail(toDev), "ASYNC") + Count(toHost \o Answer(r), "FRAME")
  BY <1>2 DEF FramesInFlight, Count, IndicesOf
<1>5. CASE Answer(r) = <<>>
  <2>1. toHost \o Answer(r) = toHost
    BY <1>5, ConcatEmptySeq DEF LinkTypeOK
  <2>2. FramesInFlight' = Count(Tail(toDev), "ASYNC") + Count(toHost, "FRAME")
    BY <1>4, <2>1
  <2> HIDE DEF r
  <2> QED BY <1>3, <2>2, InFlight
<1>6. CASE \E m \in Message : Answer(r) = <<m>>
  <2>1. PICK m \in Message : Answer(r) = <<m>>
    BY <1>6
  <2>2. toHost \o Answer(r) = Append(toHost, m)
    BY <2>1, AppendIsConcat DEF LinkTypeOK
  <2>3. FramesInFlight' = Count(Tail(toDev), "ASYNC")
                           + (Count(toHost, "FRAME") + IF m.type = "FRAME" THEN 1 ELSE 0)
    <3>1. Count(Append(toHost, m), "FRAME") = Count(toHost, "FRAME") + IF m.type = "FRAME" THEN 1 ELSE 0
      BY CountAppend DEF LinkTypeOK
    <3> QED BY <1>4, <2>2, <3>1
  <2>4. m.type = "FRAME" => r.type = "ASYNC"
    <3>1. Answer(r)[1] = m
      BY <2>1
    <3> QED BY <1>1, <2>1, <3>1 DEF Answer, CallAnswer, Reply, Request
  <2> HIDE DEF r
  <2> QED BY <1>3, <2>3, <2>4, InFlight
<1> QED BY <1>1, <1>5, <1>6, AnswerType

LEMMA Reporting ==
  ASSUME LinkTypeOK, CountersTypeOK, DevReports
  PROVE  FramesInFlight' = FramesInFlight
<1>2. PICK m \in Message : toHost' = Append(toHost, m) /\ m.type # "FRAME"
  <2>1. xdata' \in Nat
    BY DEF DevReports, CountersTypeOK
  <2>2. \A n, k \in 0..MaxBlobs :
          /\ Xdata("CCB1", xdata', n, 0) \in Message /\ Xdata("CCB1", xdata', n, 0).type # "FRAME"
          /\ Xdata("CCB2", xdata', n, k) \in Message /\ Xdata("CCB2", xdata', n, k).type # "FRAME"
    BY <2>1, RequestTypes, Bounds DEF Xdata, Message
  <2> QED BY <2>2 DEF DevReports
<1>3. Count(Append(toHost, m), "FRAME") = Count(toHost, "FRAME")
  <2>1. Count(Append(toHost, m), "FRAME") = Count(toHost, "FRAME") + IF m.type = "FRAME" THEN 1 ELSE 0
    BY CountAppend DEF LinkTypeOK
  <2> QED BY <1>2, <2>1, CountType DEF LinkTypeOK
<1>4. toDev' = toDev
  BY DEF DevReports
<1>5. FramesInFlight' = Count(toDev, "ASYNC") + Count(Append(toHost, m), "FRAME")
  BY <1>2, <1>4 DEF FramesInFlight, Count, IndicesOf
<1> QED BY <1>3, <1>5, InFlight

LEMMA InitFrames == Init => FrameInv
<1> SUFFICES ASSUME Init PROVE FrameInv
  OBVIOUS
<1>1. IndicesOf(toDev, "ASYNC") = {} /\ IndicesOf(toHost, "FRAME") = {}
  BY DEF Init, IndicesOf
<1>2. FramesInFlight = 0 /\ resets = 0
  <2>1. Count(toDev, "ASYNC") = 0 /\ Count(toHost, "FRAME") = 0
    BY <1>1, FS_EmptySet, Zenon DEF Count
  <2> QED BY <2>1, InFlight DEF Init
<1>3. call.phase = "none"
  BY NoCallType DEF Init
<1> QED BY <1>2, <1>3 DEF FrameInv, FramesBounded, Requesting

\* No frame is added, and the thread in update_frame stays where it is.
LEMMA FrameKept ==
  ASSUME FrameInv, FramesInFlight \in Nat, FramesInFlight' \in Nat, resets \in Nat,
         FramesInFlight' <= FramesInFlight, UNCHANGED <<waiting_for_frame_, resets>>,
         Updating' <=> Updating, Opening' => Opening, Requesting' => Requesting,
         Updating' /\ ~Requested' => ~Requested
  PROVE  FrameInv'
<1>1. FramesBounded'
  BY DEF FrameInv, FramesBounded, Updating
<1> QED BY <1>1 DEF FrameInv

\* The same when nobody is in update_frame, as long as another thread has the mutex.
LEMMA FrameElsewhere ==
  ASSUME FrameInv, UNCHANGED <<linkVars, waiting_for_frame_, resets>>,
         ~Updating, ~Updating', Opening' => Opening, ~Requesting'
  PROVE  FrameInv'
<1>1. FramesInFlight' = FramesInFlight
  BY DEF FramesInFlight, linkVars
<1>2. FramesBounded'
  BY <1>1 DEF FrameInv, FramesBounded, Updating
<1> QED BY <1>1, <1>2 DEF FrameInv

\* A message is handled: a frame ends the wait for it.
LEMMA FrameHandled ==
  ASSUME FrameInv, LinkTypeOK, FramesInFlight \in Nat, FramesInFlight' \in Nat, resets \in Nat,
         toHost # <<>>, toHost' = Tail(toHost), toDev' = toDev, handleChirp(Head(toHost)),
         resets' = resets, Updating' <=> Updating, Opening' => Opening,
         Updating => ~Requested, ~Requesting'
  PROVE  FrameInv'
<1>1. FramesInFlight' = FramesInFlight - IF Head(toHost).type = "FRAME" THEN 1 ELSE 0
  BY Received
<1>2. \/ waiting_for_frame_' = waiting_for_frame_
      \/ Head(toHost).type = "FRAME" /\ waiting_for_frame_' = FALSE
  BY DEF handleChirp, interpret_BA81, interpret_CCB1, interpret_CCB2, dataVars
<1>3. FramesInFlight' <= FramesInFlight
  BY <1>1
<1>4. CASE waiting_for_frame_' = waiting_for_frame_
  BY <1>3, <1>4, FrameKept
<1>5. CASE Head(toHost).type = "FRAME" /\ waiting_for_frame_' = FALSE
  <2>1. FramesInFlight' <= resets
    BY <1>1, <1>5 DEF FrameInv, FramesBounded
  <2> QED BY <2>1 DEF FrameInv, FramesBounded
<1> QED BY <1>2, <1>4, <1>5

LEMMA StartCallReq == ASSUME NEW r, StartCall(r) PROVE call'.req = r
BY DEF StartCall, NoCall

NoDuplicates == "dup" \notin Faults

LEMMA NextFrames ==
  ASSUME NoDuplicates
  PROVE  SafeInv /\ FrameInv /\ [Next]_vars => FrameInv'
<1> SUFFICES ASSUME SafeInv, FrameInv, [Next]_vars PROVE FrameInv'
  OBVIOUS
<1> USE Threads DEF Senders, Main, Interpreter, Free
<1>0. /\ ControlTypeOK /\ LinkTypeOK /\ LinkTypeOK' /\ CountersTypeOK /\ call \in Call
      /\ MutexInv /\ MutexInv' /\ LifeInv /\ LifeInv'
      /\ resets \in Nat
      /\ FramesInFlight \in Nat /\ FramesInFlight' \in Nat
  <2>1. SafeInv'
    BY NextSafe
  <2>2. /\ ControlTypeOK /\ LinkTypeOK /\ LinkTypeOK' /\ CountersTypeOK /\ call \in Call
        /\ MutexInv /\ MutexInv' /\ LifeInv /\ LifeInv'
    BY <2>1 DEF SafeInv, TypeInv, TypeOK, ChirpTypeOK
  <2> QED BY <2>2, InFlightType, Bounds DEF CountersTypeOK
<1>k. UNCHANGED linkVars => FramesInFlight' = FramesInFlight
  BY DEF linkVars, FramesInFlight
\* Nobody but the holder of the mutex is in update_frame.
<1>u. /\ Updating => chirp_access_mutex_ \in Callers
      /\ Updating' => chirp_access_mutex_' \in Callers
  BY <1>0 DEF MutexInv, Updating
<1>1. CASE Send
  <2>1. CASE call.req.type = "ASYNC"
    <3>1. FramesInFlight' = FramesInFlight + 1
      BY <1>0, <1>1, <2>1, Sent DEF Send, Call
    <3>2. Updating /\ FramesInFlight <= resets
      BY <1>1, <2>1 DEF Send, FrameInv, Requesting, Requested
    <3>3. /\ Updating' /\ UNCHANGED <<main, waiting_for_frame_, resets>>
          /\ call'.phase = "done" /\ call'.ok
      BY <1>0, <1>1, <2>1, <3>2 DEF Send, Updating, dataVars, Call
    <3>4. ~Opening'
      BY <1>0, <3>2, <3>3 DEF LifeInv, InApi, Updating, Opening
    <3> QED BY <1>0, <3>1, <3>2, <3>3, <3>4 DEF FrameInv, FramesBounded, Updating, Requesting, Requested
  <2>2. CASE call.req.type # "ASYNC"
    <3>1. FramesInFlight' = FramesInFlight
      BY <1>0, <1>1, <2>2, Sent DEF Send, Call
    <3>2. /\ UNCHANGED <<main, waiting_for_frame_, resets, pc>>
          /\ call'.phase = "wait" /\ call.phase = "send"
      BY <1>0, <1>1, <2>2 DEF Send, dataVars, Call
    <3> QED BY <1>0, <3>1, <3>2, FrameKept DEF Updating, Opening, Requesting, Requested
  <2> QED BY <2>1, <2>2
<1>2. CASE SendFails
  <2>1. /\ UNCHANGED <<linkVars, main, waiting_for_frame_, resets, pc>>
        /\ call'.req = call.req /\ call.phase = "send"
    BY <1>0, <1>2 DEF SendFails, dataVars, linkVars, Call, NoDuplicates
  <2> QED BY <1>0, <1>k, <2>1, FrameKept DEF Updating, Opening, Requesting, Requested
<1>3. CASE TakeResponse
  <2>1. FramesInFlight' = FramesInFlight
    BY <1>0, <1>3, Received DEF TakeResponse
  <2>2. /\ UNCHANGED <<main, waiting_for_frame_, resets, pc>>
        /\ call'.phase = "done" /\ call.phase = "wait"
    BY <1>0, <1>3 DEF TakeResponse, dataVars, Call
  <2> QED BY <1>0, <2>1, <2>2, FrameKept DEF Updating, Opening, Requesting, Requested
<1>4. CASE HandleWhileWaiting
  <2>1. /\ toHost # <<>> /\ toHost' = Tail(toHost) /\ toDev' = toDev /\ handleChirp(Head(toHost))
        /\ UNCHANGED <<main, resets, pc>>
        /\ call.phase = "wait" /\ call'.phase \in {"wait", "done"} /\ call'.ok = call.ok
    BY <1>0, <1>4 DEF HandleWhileWaiting, Call
  <2>2. ~Requested /\ ~Requesting'
    BY <2>1 DEF Requested, Requesting
  <2> QED BY <1>0, <2>1, <2>2, FrameHandled DEF Updating, Opening
<1>5. CASE ReceiveFails
  <2>1. FramesInFlight' <= FramesInFlight
    <3>1. CASE UNCHANGED linkVars
      BY <1>0, <1>k, <3>1
    <3>2. CASE toHost # <<>> /\ toHost' = Tail(toHost) /\ toDev' = toDev
      BY <1>0, <3>2, Received
    <3> QED BY <1>5, <3>1, <3>2 DEF ReceiveFails, linkVars
  <2>2. /\ UNCHANGED <<main, waiting_for_frame_, resets, pc>>
        /\ call'.phase = "done" /\ call.phase = "wait"
    BY <1>0, <1>5 DEF ReceiveFails, dataVars, Call
  <2> QED BY <1>0, <2>1, <2>2, FrameKept DEF Updating, Opening, Requesting, Requested
<1>6. CASE Open
  <2>1. chirp_access_mutex_' = Main /\ (Updating => Updating')
    BY <1>0, <1>6 DEF Open, Lock, MutexInv, Updating
  <2>2. UNCHANGED <<linkVars, waiting_for_frame_, resets>> /\ (Opening' => Opening)
    BY <1>6 DEF Open, dataVars, Opening
  <2>3. ~Requesting'
    BY <1>6, StartCallReq DEF Open, Requesting, InitReq, EnumReq
  <2> QED BY <1>u, <2>1, <2>2, <2>3, FrameElsewhere
<1>7. CASE Connected
  <2>1. chirp_access_mutex_' = Main /\ (Updating => Updating')
    BY <1>0, <1>7 DEF Connected, Lock, MutexInv, Updating
  <2>2. UNCHANGED <<linkVars, waiting_for_frame_, resets>> /\ (Opening' => Opening)
    BY <1>7 DEF Connected, dataVars, Opening
  <2>3. ~Requesting'
    BY <1>7, StartCallReq DEF Connected, Requesting, InitReq, EnumReq
  <2> QED BY <1>u, <2>1, <2>2, <2>3, FrameElsewhere
<1>8. CASE Joined
  <2>1. chirp_access_mutex_' = Main /\ (Updating => Updating')
    BY <1>0, <1>8 DEF Joined, Lock, MutexInv, Updating
  <2>2. UNCHANGED <<linkVars, waiting_for_frame_, resets>> /\ (Opening' => Opening)
    BY <1>8 DEF Joined, dataVars, Opening
  <2>3. ~Requesting'
    BY <1>8, StartCallReq DEF Joined, Requesting, InitReq, EnumReq
  <2> QED BY <1>u, <2>1, <2>2, <2>3, FrameElsewhere
<1>9. CASE Opened
  <2>1. /\ ~Updating /\ ~Updating' /\ ~Requesting' /\ Opening
        /\ UNCHANGED linkVars /\ resets' = resets /\ ~Opening'
    BY <1>0, <1>u, <1>9, NoCallType DEF Opened, Unlock, MutexInv, Opening, Requesting
  <2> QED BY <1>0, <1>k, <2>1 DEF FrameInv, FramesBounded, Updating
<1>10. CASE CloseBegins
  <2>1. UNCHANGED <<linkVars, waiting_for_frame_, resets, pc, call>> /\ (Opening' => Opening)
    BY <1>10 DEF CloseBegins, dataVars, Opening
  <2> QED BY <1>0, <1>k, <2>1, FrameKept DEF Updating, Requesting, Requested
<1>11. CASE CloseRequested
  <2>1. UNCHANGED <<linkVars, waiting_for_frame_, resets, pc, call>> /\ (Opening' => Opening)
    BY <1>11 DEF CloseRequested, dataVars, Opening
  <2> QED BY <1>0, <1>k, <2>1, FrameKept DEF Updating, Requesting, Requested
<1>12. CASE InterpreterChecks
  <2>1. UNCHANGED <<linkVars, waiting_for_frame_, resets, pc, call>> /\ (Opening' => Opening)
    BY <1>12 DEF InterpreterChecks, dataVars, Opening
  <2> QED BY <1>0, <1>k, <2>1, FrameKept DEF Updating, Requesting, Requested
<1>13. CASE InterpreterLocks
  <2>1. UNCHANGED <<linkVars, waiting_for_frame_, resets, pc, call>> /\ (Opening' => Opening)
    BY <1>13 DEF InterpreterLocks, dataVars, Opening
  <2> QED BY <1>0, <1>k, <2>1, FrameKept DEF Updating, Requesting, Requested
<1>14. CASE InterpreterExits
  <2>1. UNCHANGED <<linkVars, waiting_for_frame_, resets, pc, call>> /\ (Opening' => Opening)
    BY <1>14 DEF InterpreterExits, dataVars, Opening
  <2> QED BY <1>0, <1>k, <2>1, FrameKept DEF Updating, Requesting, Requested
<1>15. CASE Closed
  <2>1. UNCHANGED <<linkVars, waiting_for_frame_, resets>> /\ (Opening' => Opening)
    BY <1>15 DEF Closed, dataVars, Opening
  <2>2. ~Updating /\ ~Updating' /\ ~Requesting'
    BY <1>0, <1>u, <1>15, NoCallType DEF Closed, Unlock, MutexInv, Requesting
  <2> QED BY <2>1, <2>2, FrameElsewhere
<1>16. CASE InterpreterServices
  <2>1. ~Updating /\ ~Updating' /\ ~Requesting'
    BY <1>0, <1>u, <1>16, NoCallType DEF InterpreterServices, Unlock, MutexInv, Requesting
  <2>2. UNCHANGED <<main, resets, toDev>>
    BY <1>16 DEF InterpreterServices
  <2>3. CASE toHost = <<>>
    BY <1>16, <2>1, <2>2, <2>3, FrameElsewhere DEF InterpreterServices, dataVars, linkVars, Opening
  <2>4. CASE toHost # <<>>
    <3>1. toHost' = Tail(toHost)
      BY <1>16, <2>4 DEF InterpreterServices
    <3>2. CASE handleChirp(Head(toHost))
      BY <1>0, <2>1, <2>2, <2>4, <3>1, <3>2, FrameHandled DEF Opening
    <3>3. CASE UNCHANGED dataVars
      <4>1. FramesInFlight' <= FramesInFlight /\ waiting_for_frame_' = waiting_for_frame_
        BY <1>0, <2>2, <2>4, <3>1, <3>3, Received DEF dataVars
      <4> QED BY <1>0, <2>1, <2>2, <4>1, FrameKept DEF Opening
    <3> QED BY <1>16, <2>4, <3>2, <3>3 DEF InterpreterServices
  <2> QED BY <2>3, <2>4
<1>17. CASE NotFound
  <2>1. UNCHANGED <<linkVars, waiting_for_frame_, resets, pc, call>> /\ (Opening' => Opening)
    BY <1>17 DEF NotFound, vars, dataVars, Opening
  <2> QED BY <1>0, <1>k, <2>1, FrameKept DEF Updating, Requesting, Requested
<1>18. CASE \E n \in ReadSizes, buffer \in BOOLEAN : GetBlocks(n, buffer)
  <2>1. UNCHANGED <<linkVars, waiting_for_frame_, resets, pc, call>> /\ (Opening' => Opening)
    BY <1>18 DEF GetBlocks, vars, dataVars, Opening
  <2> QED BY <1>0, <1>k, <2>1, FrameKept DEF Updating, Requesting, Requested
<1>19. CASE ResetFrameWait
  <2>1. UNCHANGED <<linkVars, pc, call, main>> /\ resets' = resets + 1
    BY <1>19 DEF ResetFrameWait
  <2>2. FramesInFlight' = FramesInFlight
    BY <1>k, <2>1
  <2> QED BY <1>0, <2>1, <2>2 DEF FrameInv, FramesBounded, Updating, Opening, Requesting, Requested
<1>20. ASSUME NEW c \in Callers, Enter(c) PROVE FrameInv'
  <2>1. UNCHANGED <<linkVars, waiting_for_frame_, resets, call, main>>
    BY <1>20 DEF Enter, dataVars
  <2>2. Updating' <=> Updating
    BY <1>0, <1>20 DEF Enter, Goto, Updating, ControlTypeOK
  <2> QED BY <1>0, <1>k, <2>1, <2>2, FrameKept DEF Opening, Requesting, Requested
<1>21. ASSUME NEW c \in Callers, UpdateFrame(c) PROVE FrameInv'
  <2>1. /\ ~Updating /\ pc[c] = "update" /\ main \in {"open", "locking"}
        /\ UNCHANGED <<linkVars, waiting_for_frame_, resets, main>>
    BY <1>0, <1>u, <1>21 DEF UpdateFrame, dataVars, LifeInv, InApi
  <2>2. CASE ~is_running_ \/ waiting_for_frame_
    <3>1. call' = call /\ (Updating' <=> Updating)
      BY <1>0, <1>21, <2>2 DEF UpdateFrame, Goto, Updating, ControlTypeOK
    <3> QED BY <1>0, <1>k, <2>1, <3>1, FrameKept DEF Opening, Requesting, Requested
  <2>3. CASE ~(~is_running_ \/ waiting_for_frame_)
    <3>1. Updating'
      BY <1>0, <1>21, <2>3 DEF UpdateFrame, Goto, Updating, ControlTypeOK
    <3>2. FramesInFlight <= resets
      BY <1>0, <2>1, <2>3 DEF FrameInv, FramesBounded, Updating
    <3> QED BY <1>0, <1>k, <2>1, <3>1, <3>2 DEF FrameInv, FramesBounded, Opening
  <2> QED BY <2>2, <2>3
<1>22. ASSUME NEW c \in Callers, FrameRequested(c) PROVE FrameInv'
  <2>1. /\ Updating /\ ~Updating' /\ ~Requesting' /\ main \in {"open", "locking"}
        /\ UNCHANGED <<linkVars, resets, main>>
        /\ call.phase = "done" /\ waiting_for_frame_' = (call.ok \/ waiting_for_frame_)
    BY <1>0, <1>u, <1>22, NoCallType DEF FrameRequested, Unlock, Returned, MutexInv, Updating, Requesting, LifeInv, InApi
  <2>2. FramesInFlight <= resets + 1 /\ (~call.ok => FramesInFlight <= resets)
    BY <1>0, <2>1 DEF FrameInv, FramesBounded, Requested
  <2>3. CASE call.ok
    <3>1. waiting_for_frame_' = TRUE
      BY <2>1, <2>3
    <3>2. FramesBounded'
      BY <1>0, <1>k, <2>1, <2>2, <3>1 DEF FramesBounded
    <3> QED BY <2>1, <3>2 DEF FrameInv, Opening
  <2>4. CASE ~call.ok
    <3>1. FramesBounded'
      BY <1>0, <1>k, <2>1, <2>2, <2>4 DEF FramesBounded
    <3> QED BY <2>1, <3>1 DEF FrameInv, Opening
  <2> QED BY <2>3, <2>4
<1>23. ASSUME NEW t \in Senders, SendCommand(t) PROVE FrameInv'
  <2>1. /\ ~Updating
        /\ UNCHANGED <<linkVars, waiting_for_frame_, resets>>
        /\ pc[t] = "command" /\ (main' = main \/ main' = "failed" \/ main' = "open")
    BY <1>0, <1>u, <1>23 DEF SendCommand, dataVars, Leave
  <2>2. ~Updating'
    BY <1>0, <1>23, <2>1 DEF SendCommand, Leave, Goto, Updating, ControlTypeOK
  <2>3. ~Requesting'
    <3>1. CASE call' = call
      BY <2>1, <3>1 DEF FrameInv, Requesting
    <3>2. CASE call' # call
      <4>1. \/ StartCall(EnumReq(name[t]))
            \/ StartCall(SyncReq(name[t], proc_cache_[name[t]]))
        BY <1>23, <3>2 DEF SendCommand
      <4>2. call'.req.type # "ASYNC"
        BY <4>1, StartCallReq DEF EnumReq, SyncReq
      <4> QED BY <4>2 DEF Requesting
    <3> QED BY <3>1, <3>2
  <2> QED BY <2>1, <2>2, <2>3, FrameElsewhere DEF Opening
<1>24. ASSUME NEW t \in Senders, Resolved(t) PROVE FrameInv'
  <2>1. /\ UNCHANGED <<linkVars, waiting_for_frame_, resets>>
        /\ pc[t] = "resolving" /\ (main' = main \/ main' = "failed" \/ main' = "open")
    BY <1>0, <1>24 DEF Resolved, dataVars, Leave
  <2>2. ~Updating /\ ~Updating'
    BY <1>0, <1>24, <2>1 DEF Resolved, Leave, Goto, Updating, ControlTypeOK, MutexInv
  <2>3. ~Requesting'
    <3>1. StartCall(SyncReq(name[t], ChirpProc(call.val))) \/ call' = NoCall
      BY <1>24 DEF Resolved, Unlock
    <3>2. call'.req.type # "ASYNC" \/ call'.phase = "none"
      BY <3>1, StartCallReq, NoCallType DEF SyncReq
    <3> QED BY <3>2 DEF Requesting
  <2> QED BY <2>1, <2>2, <2>3, FrameElsewhere DEF Opening
<1>25. ASSUME NEW t \in Senders, CommandReturns(t) PROVE FrameInv'
  <2>1. /\ UNCHANGED <<linkVars, waiting_for_frame_, resets>>
        /\ pc[t] = "calling" /\ (main' = main \/ main' = "failed" \/ main' = "open")
    BY <1>0, <1>25 DEF CommandReturns, dataVars, Leave
  <2>2. ~Updating /\ ~Updating'
    BY <1>0, <1>25, <2>1 DEF CommandReturns, Leave, Goto, Updating, ControlTypeOK, MutexInv
  <2>3. ~Requesting'
    BY <1>25, NoCallType DEF CommandReturns, Requesting, Unlock
  <2> QED BY <2>1, <2>2, <2>3, FrameElsewhere DEF Opening
<1>26. ASSUME NEW c \in Callers, CopyVersion(c) PROVE FrameInv'
  <2>1. UNCHANGED <<linkVars, waiting_for_frame_, resets, call, main>>
    BY <1>26 DEF CopyVersion, dataVars
  <2>2. Updating' <=> Updating
    BY <1>0, <1>26 DEF CopyVersion, Goto, Updating, ControlTypeOK
  <2> QED BY <1>0, <1>k, <2>1, <2>2, FrameKept DEF Opening, Requesting, Requested
<1>27. CASE DevAnswers
  <2>1. UNCHANGED <<waiting_for_frame_, resets, pc, call, main>>
    BY <1>27 DEF DevAnswers, dataVars
  <2>2. FramesInFlight' <= FramesInFlight
    BY <1>0, <1>27, Answering
  <2> QED BY <1>0, <2>1, <2>2, FrameKept DEF Updating, Opening, Requesting, Requested
<1>28. CASE DevReports
  <2>1. UNCHANGED <<waiting_for_frame_, resets, pc, call, main>>
    BY <1>28 DEF DevReports, dataVars
  <2>2. FramesInFlight' <= FramesInFlight
    BY <1>0, <1>28, Reporting
  <2> QED BY <1>0, <2>1, <2>2, FrameKept DEF Updating, Opening, Requesting, Requested
<1>29. CASE UNCHANGED vars
  <2>1. UNCHANGED <<linkVars, waiting_for_frame_, resets, pc, call, main>>
    BY <1>29 DEF vars, dataVars
  <2> QED BY <1>0, <1>k, <2>1, FrameKept DEF Updating, Opening, Requesting, Requested
<1> QED
  BY <1>1, <1>2, <1>3, <1>4, <1>5, <1>6, <1>7, <1>8, <1>9, <1>10, <1>11, <1>12, <1>13, <1>14, <1>15, <1>16, <1>17, <1>18, <1>19, <1>20, <1>21, <1>22, <1>23, <1>24, <1>25, <1>26, <1>27, <1>28, <1>29
     DEF Next, ChirpCall, MainThread, InterpreterThread, Caller, Command, Senders

\* waiting_for_frame_ keeps the frames on their way to one, and to one more for each
\* reset_frame_wait, unless a request that is reported as failed was received after
\* all (pixyinterpreter.cpp: update_frame, reset_frame_wait, interpret_data).
THEOREM FramesLimited == ASSUME NoDuplicates PROVE Spec => []FramesBounded
<1>1. Init => SafeInv /\ FrameInv
  BY InitSafe, InitFrames
<1>2. SafeInv /\ FrameInv /\ [Next]_vars => (SafeInv /\ FrameInv)'
  BY NextSafe, NextFrames
<1>3. FrameInv => FramesBounded
  BY DEF FrameInv
<1> QED BY <1>1, <1>2, <1>3, PTL DEF Spec

=============================================================================
