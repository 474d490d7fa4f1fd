-------------------------- MODULE PixyInterpreter --------------------------
(***************************************************************************)
(* One PixyInterpreter object of libpixyusb, from init() to close(): the   *)
(* application threads that call the API, the interpreter thread that      *)
(* polls the link, the thread that opens and closes the object, the Chirp  *)
(* call machinery they share under chirp_access_mutex_, and a Pixy at the  *)
(* other end of the USB link (external: only its Chirp behaviour).         *)
(*                                                                         *)
(* A sync call is split where the code can be overtaken: assembled, sent   *)
(* (up to CRP_RETRIES attempts), waiting for a response, done.  The        *)
(* messages that arrive meanwhile are handled inside the call.             *)
(***************************************************************************)
EXTENDS BlockBuffer

CONSTANTS
  Callers,       \* application threads that use this object
  Ops,           \* the chirp operations they use: "update", "command"
  Names,         \* command names (strings): getUID, and those the callers send
  DevTable,      \* Pixy's procedure table: name -> index, -1 when unknown
  DevResult,     \* what each of Pixy's procedures answers: index -> integer
  Faults,        \* what the link and Pixy may do: see FaultKinds
  CRP_RETRIES,   \* attempts of sendChirpRetry
  MaxPipe,       \* bound: messages in transit in each direction
  MaxXdata,      \* bound: object reports Pixy sends
  MaxBlobs,      \* bound: blobs of a kind in one report
  ReadSizes,     \* the values of max_blocks the application calls get_blocks with
  MaxResets      \* bound: calls of reset_frame_wait

FrameName == "cam_getFrame"
VersionName == "version"
UidName == "getUID"
NoName == ""
NoProc == -1

\* typedef int16_t ChirpProc, which getProc makes of the uint32_t it received.
ChirpProc(v) == ((v + 32768) % 65536) - 32768
Main == "main"
Interpreter == "interpreter"
Free == "free"

\* late: an answer may come after the host's timeout.  lose: the tail of a
\* message may not arrive.  fail: a send may fail.  dup: a send may be
\* reported as failed although Pixy received it.
FaultKinds == {"late", "lose", "fail", "dup"}

ASSUME InterpreterAssumption ==
  /\ Callers \cap {Main, Interpreter, Free} = {}
  /\ Ops \subseteq {"update", "command"}
  /\ Names \subseteq STRING /\ UidName \in Names /\ {FrameName, NoName} \cap Names = {}
  /\ DevTable \in [Names \cup {FrameName} -> Int]
  /\ \A n \in Names \cup {FrameName} : DevTable[n] \in DOMAIN DevResult \cup {NoProc}
  /\ \A p \in DOMAIN DevResult : p \in Nat /\ p < 32768 /\ DevResult[p] \in Int
  /\ DevTable[FrameName] # NoProc
  /\ \A n \in Names : DevTable[n] # DevTable[FrameName]
  /\ Faults \subseteq FaultKinds
  /\ CRP_RETRIES \in Nat \ {0}
  /\ {MaxPipe, MaxXdata, MaxBlobs, MaxResets} \subseteq Nat
  /\ ReadSizes \subseteq Int

\* The threads that send commands.
Senders == Callers \cup {Main}

-----------------------------------------------------------------------------
(* Messages.  A request carries the command it was made for, a response    *)
(* the request it answers: history the code does not have on the wire.     *)

Request == [type : {"INIT", "SYNC", "ASYNC"},
            name : Names \cup {FrameName, NoName}, proc : Int]
             \cup [type : {"ENUM"}, name : Names \cup {FrameName}, proc : Int]

InitReq(connect) == [type |-> "INIT", name |-> NoName, proc |-> connect]
EnumReq(n) == [type |-> "ENUM", name |-> n, proc |-> NoProc]
SyncReq(n, p) == [type |-> "SYNC", name |-> n, proc |-> p]
AsyncReq(p) == [type |-> "ASYNC", name |-> FrameName, proc |-> p]

\* RSP: response of a sync call.  FRAME: answer of an asynchronous
\* cam_getFrame.  STRAY: answer of any other asynchronous call.  CCB1, CCB2:
\* object reports with n normal and k color-code blobs, numbered by val.
Message == [type : {"RSP", "FRAME", "STRAY", "CCB1", "CCB2"},
            val : Int, req : Request, n : Nat, k : Nat]

Reply(t, v, r) == [type |-> t, val |-> v, req |-> r, n |-> 0, k |-> 0]
Xdata(t, v, n, k) == [type |-> t, val |-> v, req |-> InitReq(0), n |-> n, k |-> k]

\* The values a response carries besides responseInt: loadArgs fails when they
\* are not the ones the caller has variables for.  The caller knows the command
\* (pixy_get_firmware_version expects an array), Pixy the procedure it ran.
Expected(r) == CASE r.type = "INIT" -> "hinformer"
                 [] r.type = "SYNC" /\ r.name = VersionName -> "array"
                 [] OTHER -> "none"

Returns(r) == CASE r.type = "INIT" -> "hinformer"
                [] r.type = "SYNC" /\ VersionName \in Names /\ r.proc = DevTable[VersionName]
                     -> "array"
                [] OTHER -> "none"

Call == [phase : {"none", "send", "wait", "done"}, req : Request,
         tries : 0..CRP_RETRIES, ok : BOOLEAN, val : Int]

NoCall == [phase |-> "none", req |-> InitReq(0), tries |-> 0, ok |-> FALSE, val |-> NoProc]

-----------------------------------------------------------------------------
VARIABLES
  main,                \* the thread in pixy_enumerate, later in pixy_close
  it,                  \* interpreter_thread
  pc,                  \* per sender: where it is in the API
  name,                \* per sender: the command it sends
  chirp_access_mutex_,
  call,                \* the Chirp::call in progress
  toDev, toHost,       \* what is in transit on the two bulk endpoints
  devConnected,        \* Pixy's m_connected
  xdata,               \* history: object reports Pixy sent
  m_connected,
  m_buf,               \* what the Chirp buffer holds
  receiver_, link_,    \* whether the two pointers are valid
  get_frame_proc_,
  is_running_, is_closing_,
  proc_cache_,         \* NoProc: not in the map
  waiting_for_frame_,
  resets,              \* history: calls of reset_frame_wait
  blocks_, blocks_are_new_,
  since,               \* history: all blocks received since blocks_ was cleared
  retrieved            \* history: all blocks get_blocks has copied out

linkVars == <<toDev, toHost>>
devVars == <<devConnected, xdata>>
chirpVars == <<m_connected, m_buf>>
objVars == <<receiver_, link_, get_frame_proc_, is_running_, is_closing_>>
blockVars == <<blocks_, blocks_are_new_, since, retrieved>>
dataVars == <<waiting_for_frame_, blockVars>>
vars == <<main, it, pc, name, chirp_access_mutex_, call, linkVars, devVars,
          chirpVars, objVars, proc_cache_, dataVars, resets>>

Init ==
  /\ main = "new" /\ it = "none"
  /\ pc = [c \in Senders |-> "idle"] /\ name = [c \in Senders |-> NoName]
  /\ chirp_access_mutex_ = Free
  /\ call = NoCall
  /\ toDev = <<>> /\ toHost = <<>>
  /\ devConnected = FALSE /\ xdata = 0
  /\ m_connected = FALSE /\ m_buf = "none"
  /\ receiver_ = FALSE /\ link_ = FALSE
  /\ get_frame_proc_ = NoProc
  /\ is_running_ = FALSE /\ is_closing_ = FALSE
  /\ proc_cache_ = [n \in Names |-> NoProc]
  /\ waiting_for_frame_ \in BOOLEAN    \* not initialised before init()
  /\ resets = 0
  /\ blocks_ = <<>> /\ since = <<>> /\ retrieved = {}
  /\ blocks_are_new_ \in BOOLEAN       \* never initialised

-----------------------------------------------------------------------------
(* What a message that is not a response to wait for does to the object:   *)
(* handleChirp, frame_callback, handleXdata and interpret_data.  Once      *)
(* ~Chirp runs the virtual handleXdata is Chirp's own, which does nothing. *)

Blobs(m, kind, count) == [i \in 1..count |-> <<m.val, kind, i>>]


interpret_BA81 ==
  /\ waiting_for_frame_' = FALSE
  /\ UNCHANGED blockVars

interpret_CCB1(m) ==
  /\ blocks_' = AddBlocks(blocks_, Blobs(m, "normal", m.n))
  /\ since' = since \o Blobs(m, "normal", m.n)
  /\ blocks_are_new_' = TRUE
  /\ UNCHANGED <<waiting_for_frame_, retrieved>>

\* Mutant: blocks_.clear() is missing.
interpret_CCB2_NoClear(m) ==
  /\ blocks_' = AddBlocks(AddBlocks(blocks_, Blobs(m, "color code", m.k)),
                          Blobs(m, "normal", m.n))
  /\ since' = Blobs(m, "color code", m.k) \o Blobs(m, "normal", m.n)
  /\ blocks_are_new_' = TRUE
  /\ UNCHANGED <<waiting_for_frame_, retrieved>>

interpret_CCB2(m) ==
  /\ blocks_' = AddBlocks(AddBlocks(<<>>, Blobs(m, "color code", m.k)),
                          Blobs(m, "normal", m.n))
  /\ since' = Blobs(m, "color code", m.k) \o Blobs(m, "normal", m.n)
  /\ blocks_are_new_' = TRUE
  /\ UNCHANGED <<waiting_for_frame_, retrieved>>

handleChirp(m) ==
  IF main = "deleting" \/ m.type \in {"RSP", "STRAY"}
    THEN UNCHANGED dataVars
    ELSE \/ m.type = "FRAME" /\ interpret_BA81
         \/ m.type = "CCB1" /\ interpret_CCB1(m)
         \/ m.type = "CCB2" /\ interpret_CCB2(m)

-----------------------------------------------------------------------------
(* Chirp::call, on behalf of the thread that holds the mutex.              *)

\* Mutant: a regular call is made without a connection.
Refused_Never(r) == FALSE

Refused(r) == r.type \in {"SYNC", "ASYNC"} /\ ~m_connected

\* Called by the actions that start a call; refused when not connected.
StartCall(r) ==
  /\ call' = [NoCall EXCEPT !.phase = IF Refused(r) THEN "done" ELSE "send", !.req = r]
  /\ m_buf' = IF Refused(r) THEN m_buf ELSE "request"

\* sendFull succeeds: an asynchronous call is over, a sync one waits.
Send ==
  /\ call.phase = "send" /\ Len(toDev) < MaxPipe
  /\ toDev' = Append(toDev, call.req)
  /\ call' = IF call.req.type = "ASYNC" THEN [call EXCEPT !.phase = "done", !.ok = TRUE]
                                        ELSE [call EXCEPT !.phase = "wait"]
  /\ UNCHANGED <<main, it, pc, name, chirp_access_mutex_, toHost, devVars, chirpVars,
                 objVars, proc_cache_, dataVars, resets>>

\* Mutant: the number of attempts is checked before it is counted.
SendFails_OneMore ==
  /\ call.phase = "send"
  /\ "fail" \in Faults
  /\ call' = [call EXCEPT !.tries = @ + 1,
                          !.phase = IF call.tries = CRP_RETRIES THEN "done" ELSE "send"]
  /\ UNCHANGED <<main, it, pc, name, chirp_access_mutex_, linkVars, devVars, chirpVars,
                 objVars, proc_cache_, dataVars, resets>>

\* sendFull fails: sendChirpRetry tries again, and gives up at CRP_RETRIES.
SendFails ==
  /\ call.phase = "send"
  /\ \/ /\ "fail" \in Faults \/ Len(toDev) = MaxPipe
        /\ UNCHANGED toDev
     \/ /\ "dup" \in Faults /\ Len(toDev) < MaxPipe
        /\ toDev' = Append(toDev, call.req)
  /\ call' = [call EXCEPT !.tries = @ + 1,
                          !.phase = IF call.tries + 1 = CRP_RETRIES THEN "done" ELSE "send"]
  /\ UNCHANGED <<main, it, pc, name, chirp_access_mutex_, toHost, devVars, chirpVars,
                 objVars, proc_cache_, dataVars, resets>>

Buffered(m) == IF m.type = "RSP" /\ Returns(m.req) = "array" THEN VersionName ELSE "other"

\* Mutant: the loop ends at an asynchronous response too.
TakeResponse_AnyResponse ==
  /\ call.phase = "wait" /\ toHost # <<>>
  /\ LET m == Head(toHost) IN
       /\ m.type \in {"RSP", "FRAME", "STRAY"}
       /\ call' = [call EXCEPT !.phase = "done", !.val = m.val,
                               !.ok = (Returns(m.req) = Expected(call.req))]
       /\ m_buf' = Buffered(m)
  /\ toHost' = Tail(toHost)
  /\ UNCHANGED <<main, it, pc, name, chirp_access_mutex_, toDev, devVars, m_connected,
                 objVars, proc_cache_, dataVars, resets>>

\* recvChirp returns a response that is not asynchronous: the loop ends and
\* loadArgs hands out its values, whichever call it answers.
TakeResponse ==
  /\ call.phase = "wait" /\ toHost # <<>>
  /\ LET m == Head(toHost) IN
       /\ m.type = "RSP"
       /\ call' = [call EXCEPT !.phase = "done", !.val = m.val,
                               !.ok = (Returns(m.req) = Expected(call.req))]
       /\ m_buf' = Buffered(m)
  /\ toHost' = Tail(toHost)
  /\ UNCHANGED <<main, it, pc, name, chirp_access_mutex_, toDev, devVars, m_connected,
                 objVars, proc_cache_, dataVars, resets>>

\* recvChirp returns something else: it is handled, then the loop goes on
\* unless m_headerTimeout has passed since the call was sent.
HandleWhileWaiting ==
  /\ call.phase = "wait" /\ toHost # <<>>
  /\ Head(toHost).type # "RSP"
  /\ handleChirp(Head(toHost))
  /\ toHost' = Tail(toHost)
  /\ m_buf' = "other"
  /\ \/ UNCHANGED call
     \/ "late" \in Faults /\ call' = [call EXCEPT !.phase = "done"]
  /\ UNCHANGED <<main, it, pc, name, chirp_access_mutex_, toDev, devVars, m_connected,
                 objVars, proc_cache_, resets>>

\* Mutant: the loop goes on when recvChirp fails.
ReceiveFails_GoesOn ==
  /\ call.phase = "wait"
  /\ \/ /\ toHost = <<>> /\ ("late" \in Faults \/ toDev = <<>>)
        /\ UNCHANGED <<toHost, m_buf>>
     \/ /\ toHost # <<>> /\ "lose" \in Faults
        /\ toHost' = Tail(toHost) /\ m_buf' = "other"
  /\ UNCHANGED <<main, it, pc, name, chirp_access_mutex_, call, toDev, devVars, m_connected,
                 objVars, proc_cache_, dataVars, resets>>

\* recvChirp fails: nothing came within m_headerTimeout, or the rest of a
\* message did not.
ReceiveFails ==
  /\ call.phase = "wait"
  /\ \/ /\ toHost = <<>> /\ ("late" \in Faults \/ toDev = <<>>)
        /\ UNCHANGED <<toHost, m_buf>>
     \/ /\ toHost # <<>> /\ "lose" \in Faults
        /\ toHost' = Tail(toHost) /\ m_buf' = "other"
  /\ call' = [call EXCEPT !.phase = "done"]
  /\ UNCHANGED <<main, it, pc, name, chirp_access_mutex_, toDev, devVars, m_connected,
                 objVars, proc_cache_, dataVars, resets>>

Lock(t) == chirp_access_mutex_ = Free /\ chirp_access_mutex_' = t
Unlock == chirp_access_mutex_' = Free /\ call' = NoCall
Returned == call.phase = "done"

-----------------------------------------------------------------------------
(* The thread that opens the object in pixy_enumerate and closes it in     *)
(* pixy_close, both with pixy_map_mutex exclusive.  The API finds the      *)
(* object in the map only while main = "open".                             *)

\* init: new ChirpReceiver, whose constructor calls setLink and remoteInit.
Open ==
  /\ main = "new" /\ main' = "connecting"
  /\ Lock(Main)
  /\ receiver_' = TRUE /\ link_' = TRUE
  /\ StartCall(InitReq(1))
  /\ UNCHANGED <<it, pc, name, linkVars, devVars, m_connected, get_frame_proc_,
                 is_running_, is_closing_, proc_cache_, dataVars, resets>>

\* remoteInit returns, its result is ignored; getProc("cam_getFrame") follows.
Connected ==
  /\ main = "connecting" /\ Returned /\ main' = "resolving"
  /\ m_connected' = (call.ok \/ m_connected)
  /\ StartCall(EnumReq(FrameName))
  /\ UNCHANGED <<it, pc, name, chirp_access_mutex_, linkVars, devVars, objVars,
                 proc_cache_, dataVars, resets>>

\* getProc returns, its result is not looked at; the thread is started.  init has
\* returned 0: pixy_enumerate sends getUID.
Opened ==
  /\ main = "resolving" /\ Returned /\ main' = "identifying"
  /\ pc' = [pc EXCEPT ![Main] = "command"]
  /\ name' = [name EXCEPT ![Main] = UidName]
  /\ get_frame_proc_' = IF call.ok THEN ChirpProc(call.val) ELSE NoProc
  /\ is_running_' = TRUE
  /\ waiting_for_frame_' = FALSE
  /\ it' = "check"
  /\ Unlock
  /\ UNCHANGED <<linkVars, devVars, chirpVars, receiver_, link_, is_closing_,
                 proc_cache_, blockVars, resets>>

\* pixy_close asks for pixy_map_mutex; boost lets no new reader pass a writer
\* that waits.
CloseRequested ==
  /\ main = "open" /\ main' = "locking"
  /\ UNCHANGED <<it, pc, name, chirp_access_mutex_, call, linkVars, devVars, chirpVars,
                 objVars, proc_cache_, dataVars, resets>>

InApi(c) == pc[c] \notin {"idle", "copy"}

\* Mutant: pixy_close takes pixy_map_mutex shared.
CloseBegins_Shared ==
  /\ main \in {"locking", "failed"} /\ main' = "joining"
  /\ is_closing_' = TRUE
  /\ UNCHANGED <<it, pc, name, chirp_access_mutex_, call, linkVars, devVars, chirpVars,
                 receiver_, link_, get_frame_proc_, is_running_, proc_cache_, dataVars, resets>>

\* Mutant: close() joins a thread it did not tell to stop.
CloseBegins_NotTold ==
  /\ main \in {"locking", "failed"} /\ main' = "joining"
  /\ \A c \in Callers : ~InApi(c)
  /\ UNCHANGED <<it, pc, name, chirp_access_mutex_, call, linkVars, devVars, chirpVars,
                 objVars, proc_cache_, dataVars, resets>>

\* pixy_close has the mutex, no caller is inside; or pixy_enumerate, which never
\* let go of it, gives up.  close() tells the thread to stop.
CloseBegins ==
  /\ main \in {"locking", "failed"} /\ main' = "joining"
  /\ \A c \in Callers : ~InApi(c)
  /\ is_closing_' = TRUE
  /\ UNCHANGED <<it, pc, name, chirp_access_mutex_, call, linkVars, devVars, chirpVars,
                 receiver_, link_, get_frame_proc_, is_running_, proc_cache_, dataVars, resets>>

\* The thread has ended: delete receiver_ runs ~Chirp, which sends remoteInit(false).
Joined ==
  /\ main = "joining" /\ it = "done" /\ main' = "deleting"
  /\ Lock(Main)
  /\ StartCall(InitReq(0))
  /\ UNCHANGED <<it, pc, name, linkVars, devVars, m_connected, objVars, proc_cache_,
                 dataVars, resets>>

\* The buffer and the receiver are freed, the link is closed.
Closed ==
  /\ main = "deleting" /\ Returned /\ main' = "closed"
  /\ m_connected' = (m_connected /\ ~call.ok)
  /\ m_buf' = "freed"
  /\ receiver_' = FALSE /\ link_' = FALSE
  /\ Unlock
  /\ UNCHANGED <<it, pc, name, linkVars, devVars, get_frame_proc_, is_running_, is_closing_,
                 proc_cache_, dataVars, resets>>

\* Any API call on an object that is no longer in the map returns -1.
NotFound ==
  /\ main = "closed" /\ \E c \in Callers : pc[c] = "idle"
  /\ UNCHANGED vars

-----------------------------------------------------------------------------
(* interpreter_thread.                                                     *)

InterpreterChecks ==
  /\ it = "check"
  /\ it' = IF is_closing_ THEN "exit" ELSE "lock"
  /\ UNCHANGED <<main, pc, name, chirp_access_mutex_, call, linkVars, devVars, chirpVars,
                 objVars, proc_cache_, dataVars, resets>>

InterpreterLocks ==
  /\ it = "lock" /\ it' = "service"
  /\ Lock(Interpreter)
  /\ UNCHANGED <<main, pc, name, call, linkVars, devVars, chirpVars, objVars, proc_cache_,
                 dataVars, resets>>

\* service(false): one recvChirp.  A message is handled or its tail is lost,
\* or nothing comes for ten milliseconds; the mutex is released.
InterpreterServices ==
  /\ it = "service" /\ it' = "check"
  /\ Unlock
  /\ \/ /\ toHost = <<>>
        /\ UNCHANGED <<toHost, m_buf, dataVars>>
     \/ /\ toHost # <<>>
        /\ handleChirp(Head(toHost)) \/ ("lose" \in Faults /\ UNCHANGED dataVars)
        /\ toHost' = Tail(toHost)
        /\ m_buf' = Buffered(Head(toHost))
  /\ UNCHANGED <<main, pc, name, toDev, devVars, m_connected, objVars, proc_cache_, resets>>

InterpreterExits ==
  /\ it = "exit" /\ it' = "done"
  /\ is_running_' = FALSE
  /\ UNCHANGED <<main, pc, name, chirp_access_mutex_, call, linkVars, devVars, chirpVars,
                 receiver_, link_, get_frame_proc_, is_closing_, proc_cache_, dataVars, resets>>

-----------------------------------------------------------------------------
(* Application threads.  A caller that is neither idle nor copying holds   *)
(* pixy_map_mutex shared.  The last steps of send_command are also those   *)
(* of pixy_enumerate, which then keeps the object or gives it up.          *)

Goto(c, l) == pc' = [pc EXCEPT ![c] = l]

\* pixy_cam_update_frame or pixy_command finds the object.
Enter(c) ==
  /\ main = "open" /\ pc[c] = "idle"
  /\ \/ /\ "update" \in Ops /\ Goto(c, "update")
        /\ UNCHANGED name
     \/ /\ "command" \in Ops /\ Goto(c, "command")
        /\ \E n \in Names \ {UidName} : name' = [name EXCEPT ![c] = n]
  /\ UNCHANGED <<main, it, chirp_access_mutex_, call, linkVars, devVars, chirpVars, objVars,
                 proc_cache_, dataVars, resets>>

\* Mutant: waiting_for_frame_ is not looked at.
UpdateFrame_NoWait(c) ==
  /\ pc[c] = "update" /\ chirp_access_mutex_ = Free
  /\ IF ~is_running_
       THEN Goto(c, "idle") /\ UNCHANGED <<chirp_access_mutex_, call, m_buf>>
       ELSE Goto(c, "updating") /\ Lock(c) /\ StartCall(AsyncReq(get_frame_proc_))
  /\ UNCHANGED <<main, it, name, linkVars, devVars, m_connected, objVars, proc_cache_,
                 dataVars, resets>>

\* update_frame, up to its call: -201 when not running, -202 when waiting.
UpdateFrame(c) ==
  /\ pc[c] = "update" /\ chirp_access_mutex_ = Free
  /\ IF ~is_running_ \/ waiting_for_frame_
       THEN Goto(c, "idle") /\ UNCHANGED <<chirp_access_mutex_, call, m_buf>>
       ELSE Goto(c, "updating") /\ Lock(c) /\ StartCall(AsyncReq(get_frame_proc_))
  /\ UNCHANGED <<main, it, name, linkVars, devVars, m_connected, objVars, proc_cache_,
                 dataVars, resets>>

\* update_frame, after its call.
FrameRequested(c) ==
  /\ pc[c] = "updating" /\ Returned /\ Goto(c, "idle")
  /\ waiting_for_frame_' = (call.ok \/ waiting_for_frame_)
  /\ Unlock
  /\ UNCHANGED <<main, it, name, linkVars, devVars, chirpVars, objVars, proc_cache_,
                 blockVars, resets>>

Leave(t, l, ok) ==
  /\ Goto(t, l) /\ name' = [name EXCEPT ![t] = NoName]
  /\ main' = CASE t # Main -> main
               [] t = Main /\ ok -> "open"
               [] t = Main /\ ~ok -> "failed"

\* send_command: the procedure index comes from the cache or from Pixy.
SendCommand(t) ==
  /\ pc[t] = "command" /\ chirp_access_mutex_ = Free
  /\ \/ /\ ~is_running_ /\ Leave(t, "idle", FALSE)
        /\ UNCHANGED <<chirp_access_mutex_, call, m_buf>>
     \/ /\ is_running_ /\ Lock(t)
        /\ IF proc_cache_[name[t]] = NoProc
             THEN Goto(t, "resolving") /\ StartCall(EnumReq(name[t]))
             ELSE Goto(t, "calling") /\ StartCall(SyncReq(name[t], proc_cache_[name[t]]))
        /\ UNCHANGED <<main, name>>
  /\ UNCHANGED <<it, linkVars, devVars, m_connected, objVars, proc_cache_, dataVars,
                 resets>>

\* getProc returns: PIXY_ERROR_INVALID_COMMAND, or the index is kept and used.
Resolved(t) ==
  /\ pc[t] = "resolving" /\ Returned
  /\ IF call.ok /\ ChirpProc(call.val) >= 0
       THEN /\ proc_cache_' = [proc_cache_ EXCEPT ![name[t]] = ChirpProc(call.val)]
            /\ StartCall(SyncReq(name[t], ChirpProc(call.val)))
            /\ Goto(t, "calling")
            /\ UNCHANGED <<main, name, chirp_access_mutex_>>
       ELSE /\ Leave(t, "idle", FALSE) /\ Unlock
            /\ UNCHANGED <<proc_cache_, m_buf>>
  /\ UNCHANGED <<it, linkVars, devVars, m_connected, objVars, dataVars, resets>>

\* send_command returns the result of the call; pixy_get_firmware_version has
\* a pointer into m_buf, and no lock, when pixy_command has returned 0.
CommandReturns(t) ==
  /\ pc[t] = "calling" /\ Returned
  /\ Leave(t, IF call.ok /\ name[t] = VersionName THEN "copy" ELSE "idle", call.ok)
  /\ Unlock
  /\ UNCHANGED <<it, linkVars, devVars, chirpVars, objVars, proc_cache_, dataVars,
                 resets>>

\* memcpy(version, pixy_version, ...).
CopyVersion(c) ==
  /\ pc[c] = "copy" /\ Goto(c, "idle")
  /\ UNCHANGED <<main, it, name, chirp_access_mutex_, call, linkVars, devVars, chirpVars,
                 objVars, proc_cache_, dataVars, resets>>

\* The blocks copied: the first of blocks_, at most max_blocks.
Copied(max_blocks) ==
  LET number_of_blocks_to_copy ==
        IF max_blocks >= Len(blocks_) THEN Len(blocks_) ELSE max_blocks
  IN {blocks_[i] : i \in 1..number_of_blocks_to_copy}

\* Mutant: the flag is cleared although the parameters were refused.
GetBlocks_FlagFirst(max_blocks, blocks) ==
  /\ main = "open"
  /\ blocks_are_new_' = FALSE
  /\ retrieved' = IF max_blocks >= 0 /\ blocks THEN retrieved \cup Copied(max_blocks) ELSE retrieved
  /\ UNCHANGED <<main, it, pc, name, chirp_access_mutex_, call, linkVars, devVars, chirpVars,
                 objVars, proc_cache_, waiting_for_frame_, blocks_, since, resets>>

\* get_blocks, under blocks_access_mutex_.  blocks: whether there is an array to
\* copy to.  PIXY_ERROR_INVALID_PARAMETER leaves everything as it is.
GetBlocks(max_blocks, blocks) ==
  /\ main = "open"
  /\ IF max_blocks >= 0 /\ blocks
       THEN /\ retrieved' = retrieved \cup Copied(max_blocks)
            /\ blocks_are_new_' = FALSE
       ELSE UNCHANGED <<retrieved, blocks_are_new_>>
  /\ UNCHANGED <<main, it, pc, name, chirp_access_mutex_, call, linkVars, devVars, chirpVars,
                 objVars, proc_cache_, waiting_for_frame_, blocks_, since, resets>>

\* reset_frame_wait takes no mutex of the object.
ResetFrameWait ==
  /\ main = "open" /\ resets < MaxResets
  /\ waiting_for_frame_' = FALSE
  /\ resets' = resets + 1
  /\ UNCHANGED <<main, it, pc, name, chirp_access_mutex_, call, linkVars, devVars, chirpVars,
                 objVars, proc_cache_, blockVars>>

-----------------------------------------------------------------------------
(* Pixy (external).  It runs the same Chirp code: a call out of the table  *)
(* is not answered, nothing but intrinsic answers leaves it before INIT.   *)

CallAnswer(r) ==
  Reply(CASE r.type = "SYNC" -> "RSP"
          [] r.type = "ASYNC" /\ r.proc = DevTable[FrameName] -> "FRAME"
          [] OTHER -> "STRAY",
        DevResult[r.proc], r)

Answer(r) ==
  CASE r.type = "INIT" -> <<Reply("RSP", 0, r)>>
    [] r.type = "ENUM" -> <<Reply("RSP", DevTable[r.name], r)>>
    [] OTHER -> IF r.proc \in DOMAIN DevResult /\ devConnected THEN <<CallAnswer(r)>> ELSE <<>>

DevAnswers ==
  /\ toDev # <<>> /\ Len(toHost) < MaxPipe
  /\ toHost' = toHost \o Answer(Head(toDev))
  /\ toDev' = Tail(toDev)
  /\ devConnected' = IF Head(toDev).type = "INIT" THEN Head(toDev).proc = 1 ELSE devConnected
  /\ UNCHANGED <<main, it, pc, name, chirp_access_mutex_, call, xdata, chirpVars, objVars,
                 proc_cache_, dataVars, resets>>

DevReports ==
  /\ devConnected /\ xdata < MaxXdata /\ Len(toHost) < MaxPipe
  /\ xdata' = xdata + 1
  /\ \E n \in 0..MaxBlobs :
       \/ toHost' = Append(toHost, Xdata("CCB1", xdata', n, 0))
       \/ \E k \in 0..MaxBlobs : toHost' = Append(toHost, Xdata("CCB2", xdata', n, k))
  /\ UNCHANGED <<main, it, pc, name, chirp_access_mutex_, call, toDev, devConnected,
                 chirpVars, objVars, proc_cache_, dataVars, resets>>

-----------------------------------------------------------------------------
ChirpCall == Send \/ SendFails \/ TakeResponse \/ HandleWhileWaiting \/ ReceiveFails
Command(t) == SendCommand(t) \/ Resolved(t) \/ CommandReturns(t)
MainThread == Open \/ Connected \/ Opened \/ Command(Main) \/ CloseBegins \/ Joined \/ Closed
InterpreterThread == InterpreterChecks \/ InterpreterLocks \/ InterpreterServices \/ InterpreterExits
Caller(c) == UpdateFrame(c) \/ FrameRequested(c) \/ Command(c) \/ CopyVersion(c)

Next ==
  \/ ChirpCall \/ MainThread \/ InterpreterThread
  \/ CloseRequested \/ NotFound \/ ResetFrameWait
  \/ \E n \in ReadSizes, buffer \in BOOLEAN : GetBlocks(n, buffer)
  \/ \E c \in Callers : Enter(c) \/ Caller(c)
  \/ DevAnswers \/ DevReports

Spec == Init /\ [][Next]_vars

\* Threads the scheduler does not forget, transfers that end; Pixy answers.  A thread
\* that waits for chirp_access_mutex_ is not promised that it ever gets it.
FairSpec == Spec /\ WF_vars(ChirpCall) /\ WF_vars(MainThread) /\ WF_vars(InterpreterThread)
                 /\ (\A c \in Callers : WF_vars(Caller(c))) /\ WF_vars(DevAnswers)

-----------------------------------------------------------------------------
(* Properties.                                                             *)

BufferContents == {"none", "request", VersionName, "other", "freed"}

ControlTypeOK ==
  /\ main \in {"new", "connecting", "resolving", "identifying", "open", "locking", "failed",
               "joining", "deleting", "closed"}
  /\ it \in {"none", "check", "lock", "service", "exit", "done"}
  /\ pc \in [Senders -> {"idle", "update", "updating", "command", "resolving", "calling",
                         "copy"}]
  /\ name \in [Senders -> Names \cup {NoName}]
  /\ chirp_access_mutex_ \in Callers \cup {Main, Interpreter, Free}

ChirpTypeOK ==
  /\ call \in Call
  /\ m_buf \in BufferContents
  /\ get_frame_proc_ \in Int /\ proc_cache_ \in [Names -> Int]

LinkTypeOK == toDev \in Seq(Request) /\ toHost \in Seq(Message)

CountersTypeOK == xdata \in 0..MaxXdata /\ resets \in 0..MaxResets

FlagsTypeOK ==
  /\ devConnected \in BOOLEAN /\ m_connected \in BOOLEAN
  /\ receiver_ \in BOOLEAN /\ link_ \in BOOLEAN
  /\ is_running_ \in BOOLEAN /\ is_closing_ \in BOOLEAN
  /\ waiting_for_frame_ \in BOOLEAN
  /\ blocks_are_new_ \in BOOLEAN

\* Every variable has its type (blocks_ and since are pinned by BlocksAreNewest,
\* retrieved holds blocks of blocks_).
TypeOK == ControlTypeOK /\ ChirpTypeOK /\ LinkTypeOK /\ CountersTypeOK /\ FlagsTypeOK

\* No thread is inside the object, waits to enter its Chirp code or runs it once
\* receiver_ or link_ is gone: pixy_close holds the map exclusively and joins the
\* interpreter thread before it deletes them.  A caller at "copy" has left the object:
\* that it reads the receive buffer, perhaps freed, is VersionFromResponse's subject.
ObjectAlive ==
  (\/ \E c \in Senders : InApi(c)
   \/ it \in {"check", "lock", "service"}
   \/ call.phase # "none")
    => receiver_ /\ link_ /\ m_buf # "freed"

\* A command that succeeds hands its caller what Pixy answered to that command,
\* whatever arrives in between.
CommandAnswered ==
  \A c \in Senders :
    pc[c] = "calling" /\ Returned /\ call.ok
      => DevTable[name[c]] # NoProc /\ call.val = DevResult[DevTable[name[c]]]

\* A procedure index that was kept is the index Pixy has for that name.
ProcsSound ==
  /\ \A n \in Names : proc_cache_[n] \in {NoProc, DevTable[n]}
  /\ get_frame_proc_ \in {NoProc, DevTable[FrameName]}

FramesInFlight ==
  Cardinality({i \in DOMAIN toDev : toDev[i].type = "ASYNC"})
    + Cardinality({i \in DOMAIN toHost : toHost[i].type = "FRAME"})

\* waiting_for_frame_ keeps a second frame from being requested while one is on its
\* way: only a reset_frame_wait allows one more.
FramesBounded ==
  FramesInFlight <= resets + IF waiting_for_frame_ \/ \E c \in Callers : pc[c] = "updating"
                               THEN 1 ELSE 0

\* While blocks_are_new() says that the data is stale, the application has been given
\* every block that blocks_ holds.  (blocks_access_mutex_ is free in every state of
\* the model: get_blocks and the handlers of reports are single steps.)
StaleIsRetrieved ==
  ~blocks_are_new_ => \A i \in DOMAIN blocks_ : blocks_[i] \in retrieved

\* blocks_ holds the newest blocks of what was received since the last CCB2 report.
BlocksAreNewest == blocks_ = Newest(since)

\* An object that pixy_enumerate put in the map is connected: getUID fails otherwise,
\* although neither setLink nor init looks at what remoteInit returned.
OpenIsConnected == main \in {"open", "locking"} => m_connected

\* pixy_get_firmware_version copies the answer to its own command.
VersionFromResponse ==
  \A c \in Callers : pc[c] = "copy" => m_buf = VersionName

\* Once pixy_close has the map, close() ends: the thread sees is_closing_ and is
\* joined, and the farewell of ~Chirp cannot hang.
CloseEnds == main = "joining" ~> main = "closed"

\* Whoever has chirp_access_mutex_ gives it back: no call goes on for ever and no
\* path out of the object keeps the mutex, whatever the link does.  (It passes from
\* one thread to another only by being free.)
MutexIsReleased == []<>(chirp_access_mutex_ = Free)


-----------------------------------------------------------------------------
(* The invariants the properties above rest on.                            *)

\* Who holds chirp_access_mutex_; a call is in progress under it and only then.
MutexInv ==
  /\ chirp_access_mutex_ = Main <=> \/ main \in {"connecting", "resolving", "deleting"}
                                    \/ pc[Main] \in {"resolving", "calling"}
  /\ chirp_access_mutex_ = Interpreter <=> it = "service"
  /\ \A c \in Callers :
       chirp_access_mutex_ = c <=> pc[c] \in {"updating", "resolving", "calling"}
  /\ call.phase = "none" <=> chirp_access_mutex_ \in {Free, Interpreter}

\* What the opening and closing thread has done when, and who may be inside then.
LifeInv ==
  /\ main \in {"new", "connecting", "resolving"} => it = "none"
  /\ main \in {"identifying", "open", "locking", "failed"} => it \in {"check", "lock", "service"}
  /\ is_closing_ => main \in {"joining", "deleting", "closed"}
  /\ main \in {"deleting", "closed"} => it = "done"
  /\ \A c \in Callers : InApi(c) => main \in {"open", "locking"}
  /\ pc[Main] \in {"command", "resolving", "calling"} <=> main = "identifying"
  /\ pc[Main] \in {"idle", "command", "resolving", "calling"} /\ name[Main] \in {NoName, UidName}
  /\ main \notin {"new", "closed"} => receiver_ /\ link_
  /\ m_buf = "freed" => main = "closed"

Synchronous(r) == r.type # "ASYNC"

\* The integer Pixy answers to a request.
RightAnswer(r) ==
  CASE r.type = "INIT" -> 0
    [] r.type = "ENUM" -> DevTable[r.name]
    [] OTHER -> DevResult[r.proc]

\* No more is in transit than the request of the call that waits, or its answer:
\* so the first response that comes is the answer.
NoStrayAnswer ==
  /\ \A i \in DOMAIN toDev :
       Synchronous(toDev[i]) => call.phase = "wait" /\ toDev[i] = call.req
  /\ \A i \in DOMAIN toHost :
       toHost[i].type = "RSP" =>
         call.phase = "wait" /\ toHost[i].req = call.req /\ toHost[i].val = RightAnswer(call.req)
  /\ \A i, j \in DOMAIN toDev : Synchronous(toDev[i]) /\ Synchronous(toDev[j]) => i = j
  /\ \A i, j \in DOMAIN toHost : toHost[i].type = "RSP" /\ toHost[j].type = "RSP" => i = j
  /\ \A i \in DOMAIN toDev, j \in DOMAIN toHost :
       ~(Synchronous(toDev[i]) /\ toHost[j].type = "RSP")

\* The call in progress is the one its thread is at, and its result is right.
CallInv ==
  /\ call.phase = "wait" => Synchronous(call.req)
  /\ call.ok => call.phase = "done"
  /\ call.phase = "done" /\ call.ok /\ Synchronous(call.req) => call.val = RightAnswer(call.req)
  /\ main = "resolving" => call.req = EnumReq(FrameName)
  /\ \A c \in Senders :
       /\ pc[c] = "resolving" => call.req = EnumReq(name[c])
       /\ pc[c] = "calling" => /\ call.req = SyncReq(name[c], DevTable[name[c]])
                               /\ DevTable[name[c]] # NoProc
=============================================================================
