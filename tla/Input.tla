-------------------------------- MODULE Input --------------------------------
(***************************************************************************)
(* The viewer's input on its way to a page: CbInputDispatch (decoding and  *)
(* the hop to the UI thread), the composite delegate and its six           *)
(* dispatchers - mouse, keyboard, IME, touch, drag, clipboard - each with  *)
(* state of its own, composed with the clipboard relay of module           *)
(* Clipboard.  Every event goes to the tab that is active when it is       *)
(* dispatched: a composition to the widget of the frame that has the focus *)
(* there, all else to the tab's main widget.  Tabs change, pages are       *)
(* replaced and the focus moves in between.                                *)
(*                                                                         *)
(* Abstraction: one session; the channel and the UI queue keep the order   *)
(* of events, so an event is sent and dispatched in one step; coordinates, *)
(* scale factors, key texts, radii and forces are left out; malformed and  *)
(* unknown envelopes change nothing and are not sent.  A click is repeated *)
(* soon and near enough or not by choice.                                  *)
(***************************************************************************)
EXTENDS Clipboard, FiniteSets

CONSTANTS
  Tabs,       \* tabs, each with its page
  Buttons,    \* mouse buttons
  Fingers,    \* touch identifiers
  Cap,        \* kBlinkTouchPointsCap
  MaxClick,   \* bound: click count
  MaxEvents,  \* bound: input events
  MaxTabOps   \* bound: tab changes and page replacements

VARIABLES
  active,     \* the tab whose widget the resolver finds, or None
  focus,      \* the widget of each tab's focused frame
  held,       \* held_buttons_blink_
  click,      \* last_click_
  scrolling,  \* wheel_in_gesture_
  mods,       \* blink_modifiers of the shared modifier state
  composing,  \* is_composing_
  points,     \* identifiers of active_points_
  drag,       \* phase_
  page,       \* what the page of each tab was told
  strays,     \* the gestures cut off in the middle, and in which tab (history)
  events, tabOps

dispatchVars == <<held, click, scrolling, mods, composing, points, drag>>
tabVars == <<active, focus, page, strays, tabOps>>
vars == <<clipVars, dispatchVars, tabVars, events>>

ASSUME CapAssumption == Cap \in Nat \ {0}
ASSUME InputBoundsAssumption ==
  MaxClick \in Nat /\ MaxEvents \in Nat /\ MaxTabOps \in Nat

Modifiers == {"Control", "Shift"}

(* The main frame's widget, and that of a frame in another process. *)
Widgets == {"main", "frame"}

(* What a page knows of each gesture; composing are the widgets that are.  *)
Pages == [pressed : SUBSET Buttons, touches : SUBSET Fingers,
          entered : Nat, composing : SUBSET Widgets, scrolling : BOOLEAN]
Gestures == {"pressed", "touches", "entered", "composing", "scrolling"}

TypeOK ==
  /\ ClipTypeOK
  /\ active \in Tabs \union {None} /\ focus \in [Tabs -> Widgets]
  /\ strays \subseteq Tabs \X Gestures
  /\ held \subseteq Buttons /\ points \subseteq Fingers /\ mods \subseteq Modifiers
  /\ Cardinality(points) <= Cap
  /\ click \in [button : Buttons \union {None}, count : 0..MaxClick]
  /\ scrolling \in BOOLEAN /\ composing \in BOOLEAN
  /\ drag \in {"idle", "active", "awaiting_end"}
  /\ page \in [Tabs -> Pages]
  /\ events \in 0..MaxEvents /\ tabOps \in 0..MaxTabOps

Blank == [pressed |-> {}, touches |-> {}, entered |-> 0, composing |-> {},
          scrolling |-> FALSE]

Init ==
  /\ ClipInit
  /\ active \in Tabs \union {None} /\ focus = [w \in Tabs |-> "main"]
  /\ held = {} /\ click = [button |-> None, count |-> 0] /\ scrolling = FALSE
  /\ mods = {} /\ composing = FALSE /\ points = {} /\ drag = "idle"
  /\ page = [w \in Tabs |-> Blank] /\ strays = {}
  /\ events = 0 /\ tabOps = 0

-----------------------------------------------------------------------------
(* The tabs, as the resolver shows them.                                   *)

(* What the page of tab w should have been told, if w is in front. *)
Told(w) == [pressed |-> held, touches |-> points,
            entered |-> IF drag = "active" THEN 1 ELSE 0,
            composing |-> IF composing THEN {focus[w]} ELSE {},
            scrolling |-> scrolling]

(* The gestures under way, as cut off in tab w. *)
CutOff(w) == {w} \X {g \in Gestures : Told(w)[g] # Blank[g]}

(* Another tab, or none, comes to the front: a gesture under way is torn   *)
(* between the two.                                                        *)
SwitchTab(w) ==
  /\ tabOps < MaxTabOps /\ tabOps' = tabOps + 1
  /\ w # active /\ active' = w
  /\ strays' = strays \union UNION {CutOff(v) : v \in {active, w} \ {None}}
  /\ UNCHANGED <<focus, page, clipVars, dispatchVars, events>>

(* A navigation or a crash replaces the page of a tab, and with it         *)
(* whatever an earlier gesture left there.                                 *)
PageReplaced(w) ==
  /\ tabOps < MaxTabOps /\ tabOps' = tabOps + 1
  /\ page' = [page EXCEPT ![w] = Blank]
  /\ focus' = [focus EXCEPT ![w] = "main"]
  /\ strays' = (strays \ ({w} \X Gestures))
                 \union (IF w = active THEN CutOff(w) ELSE {})
  /\ UNCHANGED <<active, clipVars, dispatchVars, events>>

(* The focus of a tab moves to another frame: a composition under way is   *)
(* torn between the two widgets.                                           *)
FocusMoves(w, x) ==
  /\ tabOps < MaxTabOps /\ tabOps' = tabOps + 1
  /\ x # focus[w] /\ focus' = [focus EXCEPT ![w] = x]
  /\ strays' = IF w = active /\ composing THEN strays \union {<<w, "composing">>}
               ELSE strays
  /\ UNCHANGED <<active, page, clipVars, dispatchVars, events>>

-----------------------------------------------------------------------------
(* An event of the viewer's, and its effect on the page in front.          *)

Dispatches == events < MaxEvents /\ events' = events + 1 /\ UNCHANGED tabVars

(* A field of the page in front becomes v; without a widget nothing does. *)
Forward(f, v) ==
  /\ events < MaxEvents /\ events' = events + 1
  /\ page' = IF active = None THEN page ELSE [page EXCEPT ![active][f] = v]
  /\ UNCHANGED <<active, focus, strays, tabOps>>
Front == page[active]
HasWidget == active # None

(* CbInputDispatchMouse.  Without a widget the event is dropped before the *)
(* held buttons are updated.                                               *)
ClickCount(b, again) ==
  IF again /\ click.button = b /\ click.count > 0 THEN click.count + 1 ELSE 1

MouseDown(b, again) ==
  /\ HasWidget /\ ClickCount(b, again) <= MaxClick
  /\ click' = [button |-> b, count |-> ClickCount(b, again)]
  /\ held' = held \union {b}
  /\ Forward("pressed", Front.pressed \union {b})
  /\ UNCHANGED <<clipVars, scrolling, mods, composing, points, drag>>

MouseUp(b) ==
  /\ HasWidget
  /\ held' = held \ {b}
  /\ Forward("pressed", Front.pressed \ {b})
  /\ UNCHANGED <<clipVars, click, scrolling, mods, composing, points, drag>>

(* A gesture's start is a Began with no delta, its delta a Changed after   *)
(* it; an end is an Ended; anything else is a Changed.                     *)
DispatchMouseWheel(phase) ==
  /\ HasWidget
  /\ scrolling' = CASE phase = "start" -> TRUE
                    [] phase = "end" -> FALSE
                    [] OTHER -> scrolling
  /\ Forward("scrolling", CASE phase = "start" -> TRUE
                            [] phase = "end" -> FALSE
                            [] OTHER -> Front.scrolling)
  /\ UNCHANGED <<clipVars, held, click, mods, composing, points, drag>>

(* CbInputDispatchKeyboard and the copy gesture of the composite delegate, *)
(* which looks at the envelope's modifiers only and needs no widget.       *)
KeyToBlinkModifier(k) == {k} \intersect Modifiers

IsCopyGesture(k, m) == k = "KeyC" /\ "Control" \in m

DispatchKeyDown(k, m) ==
  /\ Dispatches
  /\ IF IsCopyGesture(k, m) THEN ArmCopyWindow ELSE UNCHANGED clipVars
  /\ mods' = IF HasWidget THEN mods \union KeyToBlinkModifier(k) ELSE mods
  /\ UNCHANGED <<held, click, scrolling, composing, points, drag>>

DispatchKeyUp(k) ==
  /\ Dispatches /\ HasWidget
  /\ mods' = mods \ KeyToBlinkModifier(k)
  /\ UNCHANGED <<clipVars, held, click, scrolling, composing, points, drag>>

(* clipboard_copy_request: the window is armed, Ctrl+C is typed if there   *)
(* is a widget to type it into, and the shared modifiers stay as they are. *)
DispatchCopy ==
  /\ Dispatches
  /\ ArmCopyWindow
  /\ UNCHANGED dispatchVars

(* CbInputDispatchIme.  composition_start and composition_update do the    *)
(* same; an end or a cancel clears the flag even without a widget.  Each   *)
(* goes to the widget that has the focus when it comes.                    *)
ResolveFocusedRenderWidgetHost == focus[active]

DispatchCompositionUpdate ==
  /\ HasWidget
  /\ composing' = TRUE
  /\ Forward("composing", Front.composing \union {ResolveFocusedRenderWidgetHost})
  /\ UNCHANGED <<clipVars, held, click, scrolling, mods, points, drag>>

DispatchCompositionEnd ==
  /\ composing' = FALSE
  /\ Forward("composing", Front.composing \ {ResolveFocusedRenderWidgetHost})
  /\ UNCHANGED <<clipVars, held, click, scrolling, mods, points, drag>>

(* CbInputDispatchTouch.  The points are kept whether or not there is a    *)
(* widget; a start past the cap is dropped, as are moves and ends of       *)
(* points that are not there.  An event of more than Cap points is not     *)
(* forwarded.                                                              *)
AssembleTouchEvent(n, touches) == IF n > Cap THEN Front.touches ELSE touches

DispatchTouchStart(f) ==
  /\ f \in points \/ Cardinality(points) < Cap
  /\ points' = points \union {f}
  /\ Forward("touches",
             AssembleTouchEvent(Cardinality(points'), Front.touches \union {f}))
  /\ UNCHANGED <<clipVars, held, click, scrolling, mods, composing, drag>>

(* The released point is listed once more, after the others. *)
DispatchTouchEnd(f) ==
  /\ f \in points
  /\ points' = points \ {f}
  /\ Forward("touches",
             AssembleTouchEvent(Cardinality(points') + 1, Front.touches \ {f}))
  /\ UNCHANGED <<clipVars, held, click, scrolling, mods, composing, drag>>

(* CbInputDispatchDrag.  The page counts the drags that entered it and     *)
(* have neither left nor dropped.                                          *)
Left(n) == IF n = 0 THEN 0 ELSE n - 1

(* A drag that was never ended leaves the page before the next enters. *)
DispatchDragStartOver ==
  /\ HasWidget
  /\ drag' = "active"
  /\ Forward("entered", Front.entered + 1)
  /\ UNCHANGED <<clipVars, held, click, scrolling, mods, composing, points>>
DispatchDragStart ==
  /\ HasWidget
  /\ drag' = "active"
  /\ Forward("entered",
             (IF drag = "idle" THEN Front.entered ELSE Left(Front.entered)) + 1)
  /\ UNCHANGED <<clipVars, held, click, scrolling, mods, composing, points>>

(* A drop is dispatched also when no drag was started. *)
DispatchDrop ==
  /\ HasWidget
  /\ drag' = "awaiting_end"
  /\ Forward("entered", Left(Front.entered))
  /\ UNCHANGED <<clipVars, held, click, scrolling, mods, composing, points>>

(* A drag that never dropped leaves; so does one that dropped but failed. *)
DispatchDragEnd(success) ==
  /\ drag # "idle" /\ drag' = "idle"
  /\ Forward("entered",
             IF drag = "active" \/ ~success THEN Left(Front.entered)
             ELSE Front.entered)
  /\ UNCHANGED <<clipVars, held, click, scrolling, mods, composing, points>>

-----------------------------------------------------------------------------
OnInputEvent ==
  \/ \E b \in Buttons, again \in BOOLEAN : MouseDown(b, again)
  \/ \E b \in Buttons : MouseUp(b)
  \/ \E ph \in {"start", "changed", "end"} : DispatchMouseWheel(ph)
  \/ \E k \in Modifiers \union {"KeyC"}, m \in {{}, {"Control"}} :
       DispatchKeyDown(k, m)
  \/ \E k \in Modifiers \union {"KeyC"} : DispatchKeyUp(k)
  \/ DispatchCopy
  \/ DispatchCompositionUpdate \/ DispatchCompositionEnd
  \/ \E f \in Fingers : DispatchTouchStart(f) \/ DispatchTouchEnd(f)
  \/ DispatchDragStart \/ DispatchDrop
  \/ \E s \in BOOLEAN : DispatchDragEnd(s)

Relay ==
  /\ \/ \E t \in Texts : HandleInboundJson(t) \/ PageCopies(t)
     \/ TextCaptured \/ TextRead \/ ApplyPaste \/ WindowEnds
  /\ UNCHANGED <<dispatchVars, tabVars, events>>

Next ==
  \/ OnInputEvent
  \/ Relay
  \/ \E w \in Tabs \union {None} : SwitchTab(w)
  \/ \E w \in Tabs : PageReplaced(w)
  \/ \E w \in Tabs, x \in Widgets : FocusMoves(w, x)

Spec == Init /\ [][Next]_vars

-----------------------------------------------------------------------------
(* The page in front has been told exactly what the dispatchers believe:   *)
(* the same buttons and fingers down, the same drag inside, composition in *)
(* the focused widget and in no other, scroll under way.  It holds for     *)
(* every sequence of events, legal or not (a drop without a drag, a second *)
(* start, an end twice, a finger past the cap).  A gesture that a tab      *)
(* change, a reload or, for a composition, a move of the focus cut off in  *)
(* the middle spoils itself in the tabs it was torn between, and nothing   *)
(* else, until the page is replaced.                                       *)
PageAgrees ==
  HasWidget =>
    \A g \in Gestures : <<active, g>> \notin strays => Front[g] = Told(active)[g]

=============================================================================
