----------------------------- MODULE SwapChain -----------------------------
(***************************************************************************)
(* The swap chain with the window it presents to and the device it lives   *)
(* on: changes of the canvas and of the window, exclusive full screen, the *)
(* loss of the device, and the frame's present.  One thread runs all of it *)
(* but not one function at a time: SetFullscreenState and SetWindowPos     *)
(* send WM_SIZE, whose handler resizes the buffers of the swap chain from  *)
(* inside the function that is changing it.                                *)
(*                                                                         *)
(* A function of the code is an operator from a state to the set of its    *)
(* outcomes [ok, s]: what it returned and the state it left, which is half *)
(* changed when a call in the middle failed.                               *)
(***************************************************************************)
EXTENDS Integers

CONSTANTS CanvasSizes,   \* sizes scripts ask for; a size is one number
          WindowSizes,   \* sizes the user gives to the window
          Monitor,       \* size of the monitor
          Modes,         \* display modes of the monitor
          Models,        \* swap chain models the system may choose
          FailingCalls   \* system calls that may fail

ASSUME SizesAssumption ==
    CanvasSizes \cup WindowSizes \cup Modes \cup {Monitor} \subseteq Nat \ {0, 1}

VARIABLES sc,
          failing,   \* whether calls besides SetFullscreenState fail in the step to come
          health     \* "whole" as long as none did, "failed" from then until the
                     \* device and all on it is made anew, "mended" after that

chainVars == <<sc, failing, health>>

Minimized == 0
Sizes == {Minimized, 1, Monitor} \cup CanvasSizes \cup WindowSizes \cup Modes

----------------------------------------------------------------------------
(* Outcomes.                                                               *)

Done(s) == {[ok |-> TRUE, s |-> s]}
Failed(s) == {[ok |-> FALSE, s |-> s]}
\* The system may refuse the full screen at any time, for a reason of its own
MayFail(c) == c \in FailingCalls /\ (c = "fullscreen" \/ failing)

Call(c, s) == Done(s) \cup (IF MayFail(c) THEN Failed(s) ELSE {})

\* If F(s) returned true go on with G, otherwise return false
Then(R, G(_)) == UNION {IF r.ok THEN G(r.s) ELSE {r} : r \in R}

\* Go on with G whatever the result was
Always(R, G(_)) == UNION {G(r.s) : r \in R}

----------------------------------------------------------------------------
(* Buffers and views.                                                      *)

\* A client area without pixels still gets a buffer of one
Clamp(size) == IF size = Minimized THEN 1 ELSE size

Tell(s, e) ==
    IF e = "create"
    THEN [s EXCEPT !.told = "created", !.auto_size = s.canvas_size]
    ELSE [s EXCEPT !.told = "destroyed"]

\* UpdateTransform and Draw of the scaling renderer read both views
UseViews(s) ==
    IF s.canvas /\ s.rtv THEN Done(s) ELSE Failed([s EXCEPT !.null_use = TRUE])

createRenderTarget(s) ==
    IF s.chain /\ s.device
    THEN Then(Call("view", s), LAMBDA t : Done([t EXCEPT !.rtv = TRUE]))
    ELSE Failed(s)

resizeSwapChain(s, size) ==
    IF size = 0 \/ ~s.chain
    THEN Failed(s)
    ELSE Then(Then(Call("buffers", [s EXCEPT !.rtv = FALSE, !.info = size, !.stale = FALSE]),
                   createRenderTarget), UseViews)

\* The shader view comes first, the views a frame draws to may still fail
createCanvas(s) ==
    IF s.device
    THEN Then(Call("canvas", s), LAMBDA t : Call("canvas", [t EXCEPT !.canvas = TRUE]))
    ELSE Failed(s)

----------------------------------------------------------------------------
(* The window tells its size.                                              *)

onWindowSize(s, size) ==
    IF size = Minimized \/ ~s.chain \/ s.model = "composition"
    THEN Done(s)
    ELSE Then(resizeSwapChain(s, size),
              LAMBDA t : Done([t EXCEPT !.to_window = FALSE, !.to_mode = FALSE]))

\* The system sends WM_SIZE only when the size changed
Resized(s, size) ==
    IF size = s.client THEN Done(s)
                       ELSE onWindowSize([s EXCEPT !.client = size], size)

\* Entering gives the window the size of the display mode, leaving gives it
\* a size of the system's choice
setFullscreenState(s, full) ==
    IF s.fullscreen = full
    THEN Done(s)
    ELSE Then(Call("fullscreen", s), LAMBDA t :
           UNION {Always(Resized([t EXCEPT !.fullscreen = full], size), Done) :
                    size \in IF full THEN {t.mode} ELSE WindowSizes \cup {t.client}})

----------------------------------------------------------------------------
(* The swap chain.                                                         *)

BufferSize(s) ==
    CASE s.model = "composition" -> s.canvas_size
      [] s.model # "composition" /\ s.exclusive -> s.mode
      [] OTHER -> Clamp(s.client)

\* Changed form: the scaling is set up before the view of the new chain exists
createSwapChainScalingFirst(s) ==
    Then(Then(Call("chain", [s EXCEPT !.info = BufferSize(s), !.chain = TRUE]),
              UseViews), createRenderTarget)

createSwapChain(s) ==
    LET filled == [s EXCEPT !.info = BufferSize(s), !.stale = FALSE]
        made(t) == [t EXCEPT !.chain = TRUE, !.fullscreen = FALSE]
        waitable == s.model = "composition" \/ (s.model = "modern" /\ ~s.exclusive)
    IN  Then(Then(Then(Call("chain", filled),
                       LAMBDA t : IF waitable THEN Call("latency", made(t)) ELSE Done(made(t))),
                  createRenderTarget), UseViews)

destroySwapChain(s) ==
    LET dropped(t) == [t EXCEPT !.chain = FALSE, !.fullscreen = FALSE]
        views == [s EXCEPT !.rtv = FALSE]
    IN  IF s.chain
        THEN Always(setFullscreenState(views, FALSE), LAMBDA t : Done(dropped(t)))
        ELSE Done(dropped(views))

destroyCanvas(s) == [s EXCEPT !.canvas = FALSE]

setWindowMode(s, size) ==
    IF ~s.device THEN Failed(s)
    ELSE UNION {
        Then(Then(Always(destroySwapChain(Tell([s EXCEPT !.model = m], "destroy")),
                         LAMBDA t : createCanvas([destroyCanvas(t) EXCEPT !.canvas_size = size])),
                  createSwapChain),
             LAMBDA t : Done(Tell(t, "create"))) : m \in Models}

----------------------------------------------------------------------------
(* Exclusive full screen.                                                  *)

\* findBestDisplayMode may find none
enterExclusiveFullscreen(s) ==
    LET prepared(t, mode) ==
            Always(Resized(t, mode), LAMBDA u :
                createSwapChain([u EXCEPT !.mode = mode, !.exclusive = TRUE]))
        entered(t) == Tell([t EXCEPT !.to_window = FALSE, !.to_mode = TRUE], "create")
    IN  IF ~s.chain \/ s.model = "composition"
        THEN Failed(s)
        ELSE Failed(s) \cup UNION {
               Then(Then(Always(destroySwapChain(Tell(s, "destroy")),
                                LAMBDA t : prepared(t, mode)),
                         LAMBDA t : setFullscreenState(t, TRUE)),
                    LAMBDA t : Done(entered(t))) : mode \in Modes}

leaveExclusiveFullscreen(s) ==
    LET recreated(t) ==
            Always(destroySwapChain(Tell(t, "destroy")), LAMBDA u :
                Then(createSwapChain([u EXCEPT !.exclusive = FALSE]),
                     LAMBDA v : Done(Tell(v, "create"))))
    IN  IF ~s.chain
        THEN Failed(s)
        ELSE Always(setFullscreenState(s, FALSE),
                    LAMBDA t : IF t.exclusive THEN recreated(t) ELSE Done(t))

enterExclusiveFullscreenTemporarily(s) ==
    IF ~s.exclusive THEN Done(s)
    ELSE Then(setFullscreenState(s, TRUE),
              LAMBDA t : Done([t EXCEPT !.to_window = FALSE, !.to_mode = TRUE]))

leaveExclusiveFullscreenTemporarily(s) ==
    IF ~s.exclusive THEN Done(s)
    ELSE Always(setFullscreenState(s, FALSE),
                LAMBDA t : Done([t EXCEPT !.to_window = TRUE, !.to_mode = FALSE]))

onWindowFullscreenStateChange(s, state) ==
    CASE ~s.chain -> Done(s)
      [] s.chain /\ state -> enterExclusiveFullscreen(s)
      [] s.chain /\ ~state -> leaveExclusiveFullscreen(s)

setCanvasSize(s, size) ==
    LET canvas == Then(createCanvas([destroyCanvas(Tell(s, "destroy"))
                                       EXCEPT !.canvas_size = size]), UseViews)
        fitted(t) == IF t.model = "composition" THEN resizeSwapChain(t, size) ELSE Done(t)
        display_mode(t) == IF t.exclusive
                           THEN Always(Always(leaveExclusiveFullscreen(t),
                                              enterExclusiveFullscreen), Done)
                           ELSE Done(t)
    IN  Then(Then(canvas, fitted), LAMBDA t : display_mode(Tell(t, "create")))

----------------------------------------------------------------------------
(* The window's own switch between windowed and borderless full screen.    *)

setFullScreenMode(s) ==
    Always(Resized([s EXCEPT !.placement = IF s.window_fullscreen THEN @ ELSE s.client],
                   Monitor),
           LAMBDA t : onWindowFullscreenStateChange([t EXCEPT !.window_fullscreen = TRUE], TRUE))

setWindowedMode(s, size) ==
    Always(Resized(s, size),
           LAMBDA t : onWindowFullscreenStateChange([t EXCEPT !.window_fullscreen = FALSE], FALSE))

\* Alt+Enter: the placement is restored after the event is dispatched
toggleFullScreenMode(s) ==
    IF s.window_fullscreen
    THEN Always(onWindowFullscreenStateChange([s EXCEPT !.window_fullscreen = FALSE], FALSE),
                LAMBDA t : Resized(t, t.placement))
    ELSE setFullScreenMode(s)

----------------------------------------------------------------------------
(* The device.                                                             *)

onGraphicsDeviceCreate(s) ==
    Then(setWindowMode(s, s.canvas_size),
         LAMBDA t : IF t.exclusive THEN enterExclusiveFullscreen(t) ELSE Done(t))

doDestroyAndCreate(s) ==
    Always(destroySwapChain(s), LAMBDA t :
        Then(Call("device", [destroyCanvas(t) EXCEPT !.device = FALSE]),
             LAMBDA u : Always(onGraphicsDeviceCreate([u EXCEPT !.device = TRUE]), Done)))

\* stale: a resize that waited was meant for another state of the window
present(s) ==
    LET composing == s.model = "composition"
        cleared(t) == Done([t EXCEPT !.to_window = FALSE, !.stale = composing])
        moded(t) == Done([t EXCEPT !.to_mode = FALSE, !.stale = composing \/ ~s.exclusive])
        scaled == IF s.info # s.canvas_size /\ ~composing
                  THEN UseViews(s) ELSE Done(s)
        shown(t) == IF t.chain THEN Done(t) \cup doDestroyAndCreate(t)
                               ELSE Failed([t EXCEPT !.null_use = TRUE])
    IN  CASE s.to_window -> Then(resizeSwapChain(s, Clamp(s.client)), cleared)
          [] ~s.to_window /\ s.to_mode -> Then(resizeSwapChain(s, s.mode), moded)
          [] OTHER -> Then(scaled, shown)

----------------------------------------------------------------------------
(* Behaviour: what the frame, scripts, the user and the system may do.     *)

SwapChainInit ==
    /\ \E canvas \in CanvasSizes, window \in WindowSizes, m \in Models :
        sc = [device |-> TRUE, model |-> m, canvas |-> TRUE, canvas_size |-> canvas,
              chain |-> TRUE, rtv |-> TRUE,
              info |-> IF m = "composition" THEN canvas ELSE window,
              fullscreen |-> FALSE, exclusive |-> FALSE, mode |-> window,
              to_window |-> FALSE, to_mode |-> FALSE,
              client |-> window, window_fullscreen |-> FALSE, placement |-> window,
              told |-> "created", auto_size |-> canvas, stale |-> FALSE, null_use |-> FALSE]
    /\ failing \in BOOLEAN /\ health = "whole"

Performs(R) == ~sc.null_use /\ failing' \in BOOLEAN /\ \E r \in R : sc' = r.s
Continues == health' = IF failing THEN "failed" ELSE health

Present == Performs(present(sc))
Activate == Performs(enterExclusiveFullscreenTemporarily(sc)) /\ sc.chain
Deactivate == Performs(leaveExclusiveFullscreenTemporarily(sc)) /\ sc.chain
UserSize ==
    /\ ~sc.window_fullscreen
    /\ \E size \in WindowSizes \cup {Minimized} : Performs(Resized(sc, size))
Toggle == sc.client # Minimized /\ Performs(toggleFullScreenMode(sc))
SetWindowed ==
    /\ sc.client # Minimized
    /\ \E size \in WindowSizes : Performs(setWindowedMode(sc, size))
SetFullScreen == sc.client # Minimized /\ Performs(setFullScreenMode(sc))
SetDisplayModeWindow ==
    /\ sc.client # Minimized
    /\ \E size \in CanvasSizes :
          Performs(Always(setCanvasSize(sc, size), LAMBDA t : setWindowedMode(t, size)))
SetDisplayModeExclusiveFullscreen ==
    /\ sc.client # Minimized
    /\ \E size \in CanvasSizes :
          Performs(Always(Always(setCanvasSize(sc, size), LAMBDA t : setWindowedMode(t, size)),
                          setFullScreenMode))

\* A new device mends what calls that failed left half made
Mends == health' = CASE failing \/ sc'.null_use -> "failed"
                     [] ~failing /\ ~sc'.null_use /\ health = "whole" -> "whole"
                     [] OTHER -> "mended"
ChangeGPU == Performs(doDestroyAndCreate(sc)) /\ Mends

\* Nothing is known of the program after it used what is not there
Stopped == sc.null_use /\ UNCHANGED chainVars

SwapChainNext ==
    \/ /\ \/ Present \/ Activate \/ Deactivate \/ UserSize \/ Toggle \/ SetWindowed
          \/ SetFullScreen \/ SetDisplayModeWindow \/ SetDisplayModeExclusiveFullscreen
       /\ Continues
    \/ ChangeGPU
    \/ Stopped

SwapChainSpec == SwapChainInit /\ [][SwapChainNext]_chainVars

----------------------------------------------------------------------------

SwapChainTypeOK ==
    /\ sc \in [device : BOOLEAN, model : Models, canvas : BOOLEAN, canvas_size : CanvasSizes,
               chain : BOOLEAN, rtv : BOOLEAN, info : Sizes \ {Minimized},
               fullscreen : BOOLEAN, exclusive : BOOLEAN, mode : Sizes \ {Minimized},
               to_window : BOOLEAN, to_mode : BOOLEAN, client : Sizes,
               window_fullscreen : BOOLEAN, placement : Sizes,
               told : {"created", "destroyed"}, auto_size : CanvasSizes,
               stale : BOOLEAN, null_use : BOOLEAN]
    /\ failing \in BOOLEAN /\ health \in {"whole", "failed", "mended"}

\* The scaling renderer and Present never meet a view or a chain that is not
\* there, which LetterBoxingRenderer.cpp:40 asserts
NoNullUse == ~sc.null_use

\* Device, canvas, chain and the view of its buffers are there
AllThere == sc.device /\ sc.canvas /\ sc.chain /\ sc.rtv

\* A chain that composes has the size of the canvas; another one, when no resize
\* is pending, that of the visible client area or of the display mode it is
\* exclusive for.  Not so after a resize that waited for the next present was
\* overtaken by a change of the device or of the window (stale)
SettledSize ==
    ~sc.stale => IF sc.model = "composition"
                 THEN sc.info = sc.canvas_size
                 ELSE ~sc.to_window /\ ~sc.to_mode /\ sc.client # Minimized =>
                        sc.info = sc.client \/ (sc.exclusive /\ sc.info = sc.mode)

\* The monitor is taken only for a chain that exists and was made for a display
\* mode and, unless a call failed before, by a window in its full screen state
FullscreenOwned ==
    sc.fullscreen => sc.chain /\ sc.exclusive /\ (health = "whole" => sc.window_fullscreen)

\* Between the create event and the next destroy event the render targets that
\* follow the canvas have the size the canvas has
AutoSizeFollows == sc.told = "created" => sc.auto_size = sc.canvas_size

\* Whichever calls fail, ownership of the screen and the sizes told to listeners
\* are right at every moment; views and sizes are as long as only the system
\* refused the full screen, whichever WM_SIZE came inside which change
\* (SwapChain.cpp onWindowSize, present), and again once the device and all on it
\* was made anew (GraphicsDevice::doDestroyAndCreate).
SwapChainInv ==
    /\ SwapChainTypeOK /\ FullscreenOwned /\ AutoSizeFollows
    /\ health # "failed" => NoNullUse /\ AllThere /\ SettledSize
=============================================================================
