------------------------------ MODULE Sessions ------------------------------
(***************************************************************************)
(* Prompts, and the sessions whose apps ask them.                          *)
(***************************************************************************)
EXTENDS FiniteSetsExt, Integers, Sequences

-----------------------------------------------------------------------------
(***************************************************************************)
(* The table of pending authorization prompts (kernel/event/event_bus.c)   *)
(* and the window manager's one dialog (user/apps/win/auth_dialog.c).      *)
(*                                                                         *)
(* A console that needs the user's consent in a managed session fills a    *)
(* slot and waits for its "responded" flag. The dialog copies the first    *)
(* unanswered slot, stays up until a button is clicked, and answers by     *)
(* slot number. Prompt text and correlation ids are abstracted to the key  *)
(* that is asked for.                                                      *)
(***************************************************************************)

CONSTANTS SessionMax, \* SESSION_MAX
          AuthSlots   \* PENDING_AUTH_MAX

ASSUME TableSizes == SessionMax \in Nat \ {0} /\ AuthSlots \in Nat \ {0}

VARIABLES pending,   \* event_get_pending_auth_table()
          dialog     \* g_dialog_active and g_prompt of the window manager

Slot == 0 .. SessionMax - 1

\* What can be asked for: to run one unsigned binary, and one disk operation.
Key == {"unsigned", "disk"}

AuthSlot == 0 .. AuthSlots - 1

Response == {"deny", "allow", "always"}

Request == [active : BOOLEAN, session : Slot, key : Key,
            responded : BOOLEAN, response : Response]

NoDialog == [up |-> FALSE]

Dialog == {NoDialog}
            \cup [up : {TRUE}, slot : AuthSlot, session : Slot, key : Key]

NoRequest == [active |-> FALSE, session |-> 0, key |-> "disk",
              responded |-> FALSE, response |-> "deny"]

AuthInit ==
  /\ pending = [a \in AuthSlot |-> NoRequest]
  /\ dialog = NoDialog

FreeAuthSlots == {a \in AuthSlot : ~pending[a].active}

\* The slot search and the fill of console_auth_via_event.
FillSlot(i, k) ==
  pending' = [pending EXCEPT ![Min(FreeAuthSlots)] =
                [active |-> TRUE, session |-> i, key |-> k,
                 responded |-> FALSE, response |-> "deny"]]

\* The waiter takes the answer and gives the slot back. The code only clears
\* "active"; nobody reads the rest before the next fill.
ReleaseSlot(a) ==
  pending' = [pending EXCEPT ![a] = NoRequest]

\* auth_dialog_poll: app_native_auth_poll_prompt returns the first slot
\* that is active and unanswered.
Unanswered == {a \in AuthSlot : pending[a].active /\ ~pending[a].responded}

Poll ==
  /\ ~dialog.up
  /\ Unanswered # {}
  /\ LET a == Min(Unanswered)
     IN  dialog' = [up |-> TRUE, slot |-> a,
                    session |-> pending[a].session, key |-> pending[a].key]
  /\ UNCHANGED pending

\* Variant: the answer frees the slot.
RespondFrees(r) ==
  /\ dialog.up
  /\ pending' = [pending EXCEPT ![dialog.slot] = NoRequest]
  /\ dialog' = NoDialog

\* auth_dialog_click on a button, and app_native_auth_respond.
Respond(r) ==
  /\ dialog.up
  /\ pending' = IF pending[dialog.slot].active
                  THEN [pending EXCEPT ![dialog.slot].response = r,
                                       ![dialog.slot].responded = TRUE]
                  ELSE pending
  /\ dialog' = NoDialog

-----------------------------------------------------------------------------
(***************************************************************************)
(* Console sessions under a window manager: kernel/core/session_manager.c, *)
(* the session commands and consent prompts of kernel/core/console.c, and  *)
(* what app_execute_native_elf in kernel/user/launcher_exec.c keeps in     *)
(* globals about the native app that runs.                                 *)
(*                                                                         *)
(* There is one processor and no preemption. The main stack runs the       *)
(* console of the active session or the window manager (the client) it     *)
(* launched. The client types commands into its windows' sessions and      *)
(* ticks them. A tick runs the session's console, and the app it launches, *)
(* on the session's own stack until the commands are used up or it yields  *)
(* for input or for an answer; the next tick resumes it there.             *)
(*                                                                         *)
(* A stack is named by its session, the main stack by SessionMax, and an   *)
(* app by the stack it runs on. A typed line is a command; the characters  *)
(* of it, the screen, the frame buffer and the mouse are left out.         *)
(* Memory for tick stacks and snapshots is taken to be available.          *)
(***************************************************************************)

CONSTANTS SwitchMax,   \* sessions "session switch" creates on demand (4)
          QueueMax,    \* CONSOLE_LINE_MAX - 1, in commands
          CacheMax,    \* CONSOLE_AUTH_CACHE_MAX
          MaxAsks,     \* bound: disk operations of one app
          MaxTyped     \* bound: commands typed into windows and starts of the client

VARIABLES
  sess,      \* g_sessions and their console contexts
  active,    \* g_active_session_id
  bound,     \* g_console_ctx, as the session it belongs to
  tick,      \* g_tick_session_id, SessionMax outside a tick
  prev,      \* prev_active of the running tick
  frame,     \* where the ticked stack is
  parent,    \* g_elf_parent_buf: whose code it holds
  main,      \* what the main stack runs: "console" or "client"
  windows,   \* the sessions the client has windows for
  native,    \* g_native_context, as the app it belongs to
  recover,   \* fault_recover_armed and the app whose frame fault_recover_buf holds
  image,     \* the app whose code is at ELF_REGION_START
  children,  \* g_child_sessions[0 .. g_child_session_count - 1]
  fate,      \* "ok", or how the machine was lost
  typed,     \* bound: commands typed and clients started so far
  mine,      \* history: sessions made by os_session_create and not destroyed since
  once,      \* history: key -> "allow" answers given less those used
  standing   \* history: keys some user answered "always" for

sessVars == <<sess, active, bound, tick, prev, frame, parent>>

appVars == <<native, recover, image, children>>

clientVars == <<main, windows, typed>>

history == <<mine, once, standing>>

vars == <<pending, dialog, sessVars, appVars, clientVars, fate, history>>

MainStack == SessionMax

NoApp == SessionMax + 1

Stack == 0 .. SessionMax

\* A line: run an app, or a "session" or "auth-cache" command.
Command == [op : {"signed", "unsigned", "new", "forget"}, to : {0}]
             \cup [op : {"switch"}, to : Slot]

\* A position in the code of a ticked stack: the loop of
\* console_process_injected, the app's own code, or the wait of
\* console_auth_via_event for the answer in a slot.
Frame == [at : {"loop", "app", "wait"}, key : Key, slot : AuthSlot, asks : 0 .. MaxAsks]

Loop == [at |-> "loop", key |-> "disk", slot |-> 0, asks |-> 0]

App(n) == [Loop EXCEPT !.at = "app", !.asks = n]

Session == [used : BOOLEAN, wm : BOOLEAN, blocked : BOOLEAN,
            queue : UNION {[1 .. n -> Command] : n \in 0 .. QueueMax},
            cache : {c \in SUBSET Key : Cardinality(c) <= CacheMax},
            cont : Frame, snap : Stack \cup {NoApp}, saved : Stack \cup {NoApp}]

TypeOK ==
  /\ pending \in [AuthSlot -> Request] /\ dialog \in Dialog
  /\ sess \in [Slot -> Session]
  /\ active \in Slot /\ bound \in Slot /\ prev \in Slot /\ tick \in Stack
  /\ frame \in Frame /\ parent \in Stack \cup {NoApp}
  /\ main \in {"console", "client"} /\ windows \subseteq Slot
  /\ native \in Stack \cup {NoApp}
  /\ recover \in [armed : BOOLEAN, owner : Stack \cup {NoApp}]
  /\ image \in Stack \cup {NoApp} /\ children \subseteq Slot
  /\ fate \in {"ok", "wild", "halted", "hung"}
  /\ typed \in 0 .. MaxTyped
  /\ mine \subseteq Slot /\ standing \subseteq Key
  /\ once \in [Key -> Int]

\* session_manager_start: session 0 is made and its console runs.
Init ==
  /\ AuthInit
  /\ sess = [i \in Slot |-> [used |-> i = 0, wm |-> FALSE, blocked |-> FALSE,
                             queue |-> <<>>, cache |-> {}, cont |-> Loop,
                             snap |-> NoApp, saved |-> NoApp]]
  /\ active = 0 /\ bound = 0 /\ tick = SessionMax /\ prev = 0
  /\ frame = Loop /\ parent = NoApp
  /\ main = "console" /\ windows = {} /\ typed = 0
  /\ native = NoApp /\ image = NoApp /\ children = {}
  /\ recover = [armed |-> FALSE, owner |-> NoApp]
  /\ fate = "ok" /\ mine = {} /\ once = [k \in Key |-> 0] /\ standing = {}

-----------------------------------------------------------------------------
(* Sessions.                                                               *)

\* session_init_context leaves the consent cache as the last tenant left it.
InitContext(r) == [r EXCEPT !.used = TRUE, !.wm = FALSE, !.queue = <<>>]

\* console_init empties the cache too.
ConsoleInit(r) == [InitContext(r) EXCEPT !.cache = {}]

FreeSessions == {i \in Slot : ~sess[i].used}

\* session_manager_create: console_init binds the new context, and the active
\* session's context is bound again. A full table is reported.
CreateSession(s) ==
  IF FreeSessions = {}
    THEN sess' = s /\ UNCHANGED bound
    ELSE /\ sess' = [s EXCEPT ![Min(FreeSessions)] = ConsoleInit(@)]
         /\ bound' = active

\* session_manager_switch makes the session on demand, without console_init.
CanSwitch(j) == sess[j].used \/ j < SwitchMax

SwitchTo(s, j) ==
  /\ sess' = IF s[j].used THEN s ELSE [s EXCEPT ![j] = InitContext(@)]
  /\ active' = j
  /\ bound' = j

\* session_manager_destroy of each of ids; the active session is kept. (What
\* the next tenant never reads is cleared here.)
DestroyEach(ids, s) ==
  [i \in Slot |-> IF i \in ids \ {active}
                    THEN [s[i] EXCEPT !.used = FALSE, !.blocked = FALSE, !.wm = FALSE,
                                      !.queue = <<>>, !.cont = Loop, !.snap = NoApp,
                                      !.saved = NoApp]
                    ELSE s[i]]

-----------------------------------------------------------------------------
(* The globals of app_execute_native_elf.                                  *)

\* Entry on a ticked stack, where the bridge is already wired: the context in
\* force is remembered, the code loaded and the recovery point armed.
Launch(s) ==
  /\ sess' = [s EXCEPT ![tick].saved = native]
  /\ native' = tick
  /\ image' = tick
  /\ recover' = [armed |-> TRUE, owner |-> tick]
  /\ frame' = App(MaxAsks)

\* The app's entry function returns.
ReturnNested ==
  /\ recover' = [recover EXCEPT !.armed = FALSE]
  /\ native' = sess[tick].saved
  /\ sess' = [sess EXCEPT ![tick].saved = NoApp]
  /\ UNCHANGED <<children, mine, fate>>

\* os_process_exit, or a fault while armed, jumps to the recovery point. Where
\* that is another app's frame the outcome is undefined. The child sessions of
\* every app are destroyed.
JumpNested ==
  /\ recover' = [recover EXCEPT !.armed = FALSE]
  /\ IF recover.owner = tick
       THEN /\ native' = sess[tick].saved
            /\ sess' = DestroyEach(children, [sess EXCEPT ![tick].saved = NoApp])
            /\ mine' = mine \ (children \ {active})
            /\ children' = {}
            /\ UNCHANGED fate
       ELSE /\ fate' = "wild"
            /\ UNCHANGED <<native, sess, mine, children>>

-----------------------------------------------------------------------------
(* session_manager_tick.                                                   *)

\* Variant: a yielded session is resumed in the client's code.
EnterTickStale(i, s) ==
  /\ parent' = image /\ image' = image
  /\ prev' = active /\ active' = i /\ bound' = i /\ tick' = i
  /\ sess' = [s EXCEPT ![i].blocked = FALSE, ![i].cont = Loop, ![i].snap = NoApp]
  /\ frame' = IF s[i].blocked THEN s[i].cont ELSE Loop

\* From the save of the parent's code to the jump into the session's stack: a
\* yielded session is resumed with the code of its own app.
EnterTick(i, s) ==
  /\ parent' = image
  /\ prev' = active
  /\ active' = i
  /\ bound' = i
  /\ tick' = i
  /\ sess' = [s EXCEPT ![i].blocked = FALSE, ![i].cont = Loop, ![i].snap = NoApp]
  /\ frame' = IF s[i].blocked THEN s[i].cont ELSE Loop
  /\ image' = IF s[i].blocked /\ s[i].snap # NoApp THEN s[i].snap ELSE image

\* Variant: the context of the ticked session stays bound.
LeaveTickBound(s) ==
  /\ sess' = s /\ image' = parent
  /\ active' = prev /\ bound' = bound
  /\ tick' = SessionMax /\ frame' = Loop /\ prev' = 0 /\ parent' = NoApp

\* The label "restore": the parent's code is brought back, and the previous
\* session made active and bound.
LeaveTick(s) ==
  /\ sess' = s
  /\ image' = parent
  /\ active' = prev
  /\ bound' = IF s[prev].used THEN prev ELSE bound
  /\ tick' = SessionMax
  /\ frame' = Loop
  /\ prev' = 0 /\ parent' = NoApp

\* session_manager_tick_yield. The app's code is kept for the next tick; the
\* copy made when a tick is done is never read.
Yield ==
  LeaveTick([sess EXCEPT ![tick].blocked = TRUE, ![tick].cont = frame,
                         ![tick].snap = image])

\* Variant: the fast path looks at the input only.
NothingToDoNoInput(i) == sess[i].queue = <<>>

\* The fast path returns at once.
NothingToDo(i) == ~sess[i].blocked /\ sess[i].queue = <<>>

InTick == fate = "ok" /\ tick # SessionMax

-----------------------------------------------------------------------------
(* Consent: console_authorize_disk_io and console_authorize_unsigned_binary. *)

\* console_auth_cache_store: a full cache stores nothing, and nobody is told.
Store(s, k) ==
  IF Cardinality(s[bound].cache \cup {k}) <= CacheMax
    THEN [s EXCEPT ![bound].cache = @ \cup {k}]
    ELSE s

\* What the caller does with the decision: app_validate_codesign lets the app
\* be launched or not, a disk operation returns to the app.
Decide(s, k, ok) ==
  IF k = "unsigned" /\ ok
    THEN Launch(s)
    ELSE /\ sess' = s
         /\ frame' = IF k = "unsigned" THEN Loop ELSE App(frame.asks - 1)
         /\ UNCHANGED <<native, image, recover>>

\* In a tick the session is managed, so what is not cached is asked for
\* through the pending table, and refused when the table is full.
Ask(s, k) ==
  \/ /\ k \in s[bound].cache
     /\ Decide(s, k, TRUE)
     /\ UNCHANGED pending
  \/ /\ k \notin s[bound].cache
     /\ FreeAuthSlots = {}
     /\ Decide(s, k, FALSE)
     /\ UNCHANGED pending
  \/ /\ k \notin s[bound].cache
     /\ FreeAuthSlots # {}
     /\ FillSlot(active, k)
     /\ sess' = s
     /\ frame' = [frame EXCEPT !.at = "wait", !.key = k, !.slot = Min(FreeAuthSlots)]
     /\ UNCHANGED <<native, image, recover>>

\* Variant: every consent is remembered.
TakeAnswerCached ==
  LET a == frame.slot
      k == frame.key
      r == pending[a].response
  IN  /\ InTick /\ frame.at = "wait"
      /\ pending[a].responded
      /\ ReleaseSlot(a)
      /\ Decide(IF r # "deny" THEN Store(sess, k) ELSE sess, k, r # "deny")
      /\ once' = IF r = "allow" THEN [once EXCEPT ![k] = @ - 1] ELSE once
      /\ UNCHANGED <<dialog, active, bound, tick, prev, parent, children,
                     clientVars, fate, mine, standing>>

\* Back from the wait with an answer: the slot is free again, and the cache of
\* the context now bound remembers an "always".
TakeAnswer ==
  LET a == frame.slot
      k == frame.key
      r == pending[a].response
  IN  /\ InTick /\ frame.at = "wait"
      /\ pending[a].responded
      /\ ReleaseSlot(a)
      /\ Decide(IF r = "always" THEN Store(sess, k) ELSE sess, k, r # "deny")
      /\ once' = IF r = "allow" THEN [once EXCEPT ![k] = @ - 1] ELSE once
      /\ UNCHANGED <<dialog, active, bound, tick, prev, parent, children,
                     clientVars, fate, mine, standing>>

KeepWaiting ==
  /\ InTick /\ frame.at = "wait"
  /\ ~pending[frame.slot].responded
  /\ Yield
  /\ UNCHANGED <<pending, dialog, native, recover, children, clientVars, fate, history>>

-----------------------------------------------------------------------------
(* What a ticked stack does: console_process_injected and its commands.    *)

\* The line leaves the queue of the bound context before it is handled.
Popped == [sess EXCEPT ![bound].queue = Tail(@)]

AtCommand(op) ==
  /\ InTick /\ frame.at = "loop"
  /\ sess[bound].queue # <<>>
  /\ Head(sess[bound].queue).op = op

RunSigned ==
  /\ AtCommand("signed")
  /\ Launch(Popped)
  /\ UNCHANGED <<pending, dialog, active, bound, tick, prev, parent, children,
                 clientVars, fate, history>>

RunUnsigned ==
  /\ AtCommand("unsigned")
  /\ Ask(Popped, "unsigned")
  /\ UNCHANGED <<dialog, active, bound, tick, prev, parent, children,
                 clientVars, fate, history>>

\* "session new".
SessionNew ==
  /\ AtCommand("new")
  /\ CreateSession(Popped)
  /\ UNCHANGED <<pending, dialog, active, tick, prev, frame, parent, appVars,
                 clientVars, fate, history>>

\* "session switch": the loop goes on with the other session's line.
SessionSwitch ==
  /\ AtCommand("switch")
  /\ LET j == Head(sess[bound].queue).to
     IN  IF CanSwitch(j)
           THEN SwitchTo(Popped, j)
           ELSE sess' = Popped /\ UNCHANGED <<active, bound>>
  /\ UNCHANGED <<pending, dialog, tick, prev, frame, parent, appVars,
                 clientVars, fate, history>>

\* "auth-cache reset".
ForgetConsent ==
  /\ AtCommand("forget")
  /\ sess' = [Popped EXCEPT ![bound].cache = {}]
  /\ UNCHANGED <<pending, dialog, active, bound, tick, prev, frame, parent, appVars,
                 clientVars, fate, history>>

\* No line is left: tick_trampoline jumps back.
Complete ==
  /\ InTick /\ frame.at = "loop"
  /\ sess[bound].queue = <<>>
  /\ LeaveTick(sess)
  /\ UNCHANGED <<pending, dialog, native, recover, children, clientVars, fate, history>>

-----------------------------------------------------------------------------
(* The app on a ticked stack, through the bridge.                          *)

InApp == InTick /\ frame.at = "app"

\* app_native_input_read_char takes from the injected line if it can.
AppReads ==
  /\ InApp
  /\ sess[bound].queue # <<>>
  /\ sess' = Popped
  /\ UNCHANGED <<pending, dialog, active, bound, tick, prev, frame, parent, appVars,
                 clientVars, fate, history>>

\* It yields when there is nothing to read, app_native_mouse_get_state always.
AppYields ==
  /\ InApp
  /\ Yield
  /\ UNCHANGED <<pending, dialog, native, recover, children, clientVars, fate, history>>

\* A disk operation; without CAP_DISK_IO_REQUEST it is refused unasked.
AppAsks ==
  /\ InApp /\ frame.asks > 0
  /\ \/ Ask(sess, "disk")
     \/ Decide(sess, "disk", FALSE) /\ UNCHANGED pending
  /\ UNCHANGED <<dialog, active, bound, tick, prev, parent, children,
                 clientVars, fate, history>>

AppReturns ==
  /\ InApp
  /\ ReturnNested
  /\ frame' = Loop
  /\ UNCHANGED <<pending, dialog, active, bound, tick, prev, parent, image,
                 clientVars, once, standing>>

AppExits ==
  /\ InApp
  /\ JumpNested
  /\ frame' = Loop
  /\ UNCHANGED <<pending, dialog, active, bound, tick, prev, parent, image,
                 clientVars, once, standing>>

\* A CPU exception: idt_exception_handler recovers if armed and halts if not.
AppFaults ==
  /\ InApp
  /\ IF recover.armed
       THEN JumpNested /\ frame' = Loop
       ELSE fate' = "halted" /\ UNCHANGED <<sess, frame, native, recover, children, mine>>
  /\ UNCHANGED <<pending, dialog, active, bound, tick, prev, parent, image,
                 clientVars, once, standing>>

-----------------------------------------------------------------------------
(* The main stack: the console of the active session.                      *)

AtConsole == fate = "ok" /\ tick = SessionMax /\ main = "console"

ConsoleNew ==
  /\ AtConsole
  /\ CreateSession(sess)
  /\ UNCHANGED <<pending, dialog, active, tick, prev, frame, parent, appVars,
                 clientVars, fate, history>>

\* "session switch" and the F1 to F4 keys.
ConsoleSwitch ==
  /\ AtConsole
  /\ \E j \in Slot : CanSwitch(j) /\ SwitchTo(sess, j)
  /\ UNCHANGED <<pending, dialog, tick, prev, frame, parent, appVars,
                 clientVars, fate, history>>

\* The console runs the window manager, which wires the bridge.
StartClient(s) ==
  /\ sess' = s
  /\ typed < MaxTyped
  /\ typed' = typed + 1
  /\ main' = "client"
  /\ native' = MainStack /\ image' = MainStack
  /\ recover' = [armed |-> TRUE, owner |-> MainStack]

\* The binary may be unsigned. Consent then comes from the cache, from the
\* keyboard, or, in a session still marked as managed, through the pending
\* table, where the wait never ends: nobody else runs, and
\* session_manager_tick_yield refuses outside a tick.
ConsoleRunsClient ==
  /\ AtConsole
  /\ \/ /\ StartClient(sess)
        /\ UNCHANGED <<pending, fate, standing>>
     \/ /\ ~sess[bound].wm
        /\ "unsigned" \notin sess[bound].cache
        /\ StartClient(Store(sess, "unsigned"))
        /\ standing' = standing \cup {"unsigned"}
        /\ UNCHANGED <<pending, fate>>
     \/ /\ sess[bound].wm
        /\ "unsigned" \notin sess[bound].cache
        /\ FreeAuthSlots # {}
        /\ FillSlot(active, "unsigned")
        /\ fate' = "hung"
        /\ UNCHANGED <<sess, main, typed, native, image, recover, standing>>
  /\ UNCHANGED <<dialog, active, bound, tick, prev, frame, parent, children,
                 windows, mine, once>>

-----------------------------------------------------------------------------
(* The main stack: the client, user/apps/win through the bridge.           *)

InClient == fate = "ok" /\ tick = SessionMax /\ main = "client"

\* app_native_session_create.
ClientCreates ==
  /\ InClient
  /\ FreeSessions # {}
  /\ CreateSession(sess)
  /\ children' = children \cup {Min(FreeSessions)}
  /\ mine' = mine \cup {Min(FreeSessions)}
  /\ UNCHANGED <<pending, dialog, active, tick, prev, frame, parent, native, recover,
                 image, clientVars, fate, once, standing>>

\* session_manager_set_wm_managed, and a window for the session.
ClientManages(i) ==
  /\ InClient
  /\ i \in children
  /\ sess[i].used /\ ~sess[i].wm
  /\ sess' = [sess EXCEPT ![i].wm = TRUE]
  /\ windows' = windows \cup {i}
  /\ UNCHANGED <<pending, dialog, active, bound, tick, prev, frame, parent, appVars,
                 main, typed, fate, history>>

\* os_session_tick of a window's session. A window whose session is gone is
\* skipped, and so is one whose slot has a new, unmanaged tenant.
Tick(i) ==
  /\ InClient
  /\ i \in windows
  /\ sess[i].used /\ sess[i].wm
  /\ ~NothingToDo(i)
  /\ EnterTick(i, sess)
  /\ UNCHANGED <<pending, dialog, native, recover, children, clientVars, fate, history>>

\* os_session_write_input: what does not fit is dropped, then the session is
\* ticked.
WriteInput(i, c) ==
  /\ InClient
  /\ i \in windows
  /\ sess[i].used /\ sess[i].wm
  /\ typed < MaxTyped
  /\ typed' = typed + 1
  /\ EnterTick(i, IF Len(sess[i].queue) < QueueMax
                    THEN [sess EXCEPT ![i].queue = Append(@, c)]
                    ELSE sess)
  /\ UNCHANGED <<pending, dialog, native, recover, children, main, windows,
                 fate, history>>

ClientPolls ==
  /\ InClient
  /\ Poll
  /\ UNCHANGED <<sessVars, appVars, clientVars, fate, history>>

ClientResponds ==
  /\ InClient
  /\ \E r \in Response :
       /\ Respond(r)
       /\ once' = IF r = "allow" THEN [once EXCEPT ![dialog.key] = @ + 1] ELSE once
       /\ standing' = IF r = "always" THEN standing \cup {dialog.key} ELSE standing
  /\ UNCHANGED <<sessVars, appVars, clientVars, fate, mine>>

\* The client returns, exits or faults; at the top level each of the three
\* destroys the child sessions and takes the bridge down. A jump to a recovery
\* point that is not the client's own is undefined.
ClientEnds ==
  /\ InClient
  /\ \E how \in {"return", "exit", "fault"} :
       /\ fate' = CASE how = "return" -> "ok"
                    [] how = "fault" /\ ~recover.armed -> "halted"
                    [] OTHER -> IF recover.owner = MainStack THEN "ok" ELSE "wild"
  /\ IF fate' = "ok"
       THEN /\ sess' = DestroyEach(children, sess)
            /\ mine' = mine \ (children \ {active})
            /\ children' = {}
            /\ main' = "console" /\ windows' = {} /\ dialog' = NoDialog
            /\ native' = NoApp
            /\ recover' = [recover EXCEPT !.armed = FALSE]
       ELSE UNCHANGED <<sess, mine, children, main, windows, dialog, native, recover>>
  /\ UNCHANGED <<pending, active, bound, tick, prev, frame, parent, image, typed,
                 once, standing>>

-----------------------------------------------------------------------------

TickStep ==
  \/ TakeAnswer \/ KeepWaiting
  \/ RunSigned \/ RunUnsigned \/ SessionNew \/ SessionSwitch \/ ForgetConsent \/ Complete
  \/ AppReads \/ AppYields \/ AppAsks \/ AppReturns \/ AppExits \/ AppFaults

Next ==
  \/ TickStep
  \/ ConsoleNew \/ ConsoleSwitch \/ ConsoleRunsClient
  \/ ClientCreates \/ ClientPolls \/ ClientResponds \/ ClientEnds
  \/ \E i \in Slot : \/ ClientManages(i)
                     \/ Tick(i)
                     \/ \E c \in Command : WriteInput(i, c)

\* The client's main loop ticks every window on every round, and a tick runs
\* until it yields or is done.
Spec == Init /\ [][Next]_vars /\ WF_vars(TickStep) /\ \A i \in Slot : SF_vars(Tick(i))

-----------------------------------------------------------------------------

Waiting(i) == sess[i].blocked /\ sess[i].cont.at = "wait"

\* Code at the load address all apps share is the code of the app that runs:
\* session_manager_tick saves and restores it around every tick, so an app
\* resumes in its own code and the client in the client's, whatever other
\* sessions launched in between.
RunsOwnCode ==
  fate = "ok" =>
    /\ tick = SessionMax /\ main = "client" => image = MainStack
    /\ tick # SessionMax /\ (frame.at = "app" \/ (frame.at = "wait" /\ frame.key = "disk"))
          => image = tick

\* The console globals and the active session never part: g_console_ctx is the
\* context of the active session, which exists, and a tick gives back the
\* session it took, which still exists too. A command that is being run in a
\* tick runs for a managed session.
ContextIsActive ==
  /\ bound = active
  /\ sess[active].used
  /\ tick # SessionMax => sess[prev].used
  /\ tick # SessionMax /\ frame.at # "loop" => sess[bound].wm

\* Every prompt that is waited for has a slot of its own that stays filled with
\* it, and the dialog shows the request its answer will go to, also when the
\* session that asked is destroyed or others ask meanwhile.
PromptsKeepTheirSlots ==
  /\ \A i \in Slot : Waiting(i) => /\ pending[sess[i].cont.slot].active
                                   /\ pending[sess[i].cont.slot].key = sess[i].cont.key
  /\ \A i, j \in Slot : Waiting(i) /\ Waiting(j) /\ sess[i].cont.slot = sess[j].cont.slot
                            => i = j
  /\ dialog.up => /\ dialog.slot \in Unanswered
                  /\ pending[dialog.slot].session = dialog.session
                  /\ pending[dialog.slot].key = dialog.key

\* Nothing is granted that was not answered for: an "allow" is used at most
\* once, and a cache holds only what was answered with "always".
GrantsAreAnswered ==
  /\ \A k \in Key : once[k] >= 0
  /\ \A i \in Slot : sess[i].cache \subseteq standing

\* A window whose prompt was answered does not stay blocked on it: the tick's
\* fast path and the dialog's answer by slot number do not miss each other.
AnsweredInWindow(i) ==
  /\ i \in windows
  /\ sess[i].used /\ sess[i].wm
  /\ Waiting(i) /\ pending[sess[i].cont.slot].responded

AnsweredPromptsResume ==
  \A i \in Slot : AnsweredInWindow(i) ~> ~AnsweredInWindow(i) \/ fate # "ok"

\* "Arm fault recovery so CPU exceptions in the app don't crash the kernel":
\* whenever app code runs, the recovery point is armed and its own.
AppsAreRecoverable ==
  fate = "ok" =>
    /\ tick = SessionMax /\ main = "client" => recover = [armed |-> TRUE, owner |-> MainStack]
    /\ tick # SessionMax /\ frame.at = "app" => recover = [armed |-> TRUE, owner |-> tick]

\* "child sessions must not outlive the parent": when no app runs, no session
\* made by os_session_create is left.
ChildrenDieWithParent ==
  fate = "ok" /\ main = "console" => mine = {}
=============================================================================
