-------------------------------- MODULE Widget --------------------------------
(***************************************************************************)
(* The annotation widget of one page: inspect mode, the popup, the markers *)
(* with their selection, the quality chips and the quality runner, and the *)
(* detached panel, over an annotation store whose adapter may reject a     *)
(* write (core/src/web-remarq.ts, core/src/ui, core/src/core/storage.ts,   *)
(* core/src/core/quality-runner.ts).                                       *)
(*                                                                         *)
(* Everything runs on one thread: an action is one event handler.  `w` is  *)
(* what the modules of the widget hold; the operators take and return it   *)
(* the way the handlers' calls nest.                                       *)
(*                                                                         *)
(* Left out: geometry, texts, toasts, theme, exports, import, `destroy`,   *)
(* and of an annotation its history and fingerprint (`page.dom` says whose *)
(* element is found).                                                      *)
(***************************************************************************)
EXTENDS Lifecycle, FiniteSetsExt

CONSTANTS
  Ids,         \* annotation ids
  Comments,    \* comments
  Vague,       \* the comments the quality gate objects to
  Rewrite,     \* the comment it suggests instead
  Routes,      \* routes of the page
  Stores,      \* what the backend may hold when the page opens
  Drafts,      \* texts the user may type
  SubmitFlows, \* option submitFlow, on or off: whether annotations start as drafts
  Gate,        \* option qualityGate: comments are checked
  Others,      \* bound: the statuses other clients and API callers move annotations to
  MaxActs,     \* bound: gestures of the user
  MaxPage,     \* bound: changes of the page, its route and its width
  MaxNews,     \* bound: changes made by other clients and by API calls
  MaxFaults,   \* bound: rejected writes and failed checks
  Null         \* no record, no id, no comment

Verdicts == [of : Comments, refined : BOOLEAN]

\* `copy` tells the objects of the page's heap apart that stand for one annotation; the
\* backend's records have copy 0.
Records ==
  [ comment : Comments, status : Statuses, route : Routes, narrow : BOOLEAN,
    verdict : Verdicts \cup {Null}, copy : Nat ]

ASSUME CommentsAreKnown == Vague \cup Drafts \subseteq Comments /\ Rewrite \in Comments \ Vague
ASSUME NullIsNothing == Null \notin Records \cup Ids \cup Comments \cup Verdicts
ASSUME StoresHoldRecords == Stores \subseteq [Ids -> Records \cup {Null}]
ASSUME IdsAreFinite == IsFiniteSet(Ids)
ASSUME OthersAreStatuses == Others \subseteq Statuses

VARIABLES
  w,       \* the widget
  page,    \* [route, dom, narrow, submitFlow]: the route, the annotations whose element is
           \* there, whether the window is narrow, and the option the page chose
  stored,  \* what the backend holds
  used,    \* ids ever given to an annotation
  spent    \* how much of each bound is used up

vars == <<w, page, stored, used, spent>>

Nobody == [id \in Ids |-> Null]

\* The popup: closed, asking for a new comment, or showing annotation `id` as it was
\* when it opened.  `draft` is the text of the edit field, `reason` the action whose
\* reason is asked for.
Closed ==
  [ kind |-> "closed", id |-> Null, comment |-> Null, status |-> Null, verdict |-> Null,
    pending |-> FALSE, draft |-> Null, reason |-> Null ]

\* [inspecting, spacing]: the two modes; [popup]; [markers]: the record object each marker
\* holds; [selected], [suppressed], [chips]; [other, detached]: the panel; [badges];
\* [narrow]: the width last seen; [seqs, pending, checks]: the quality runner and its
\* calls; [cache, writes]: the domain store and its calls; [loaded]; [scheduled]: a
\* refresh waits for the next frame.
Init ==
  /\ stored \in Stores
  /\ used = {id \in Ids : stored[id] # Null}
  /\ page \in [route : Routes, dom : {used}, narrow : {FALSE}, submitFlow : SubmitFlows]
  /\ w = [ inspecting |-> FALSE, spacing |-> FALSE, popup |-> Closed,
           markers |-> Nobody, selected |-> Null, chips |-> Nobody, suppressed |-> Null,
           other |-> {}, detached |-> {}, narrow |-> page.narrow,
           badges |-> [attention |-> 0, verification |-> 0, drafts |-> 0],
           seqs |-> [id \in Ids |-> 0], pending |-> {}, checks |-> {},
           cache |-> Nobody, writes |-> <<>>, loaded |-> FALSE, scheduled |-> FALSE ]
  /\ spent = [acts |-> 0, page |-> 0, news |-> 0, faults |-> 0]

-----------------------------------------------------------------------------
(* Markers, chips, panel and badges are rebuilt from the store. *)

OnRoute(cache, route) == {id \in Ids : cache[id] # Null /\ cache[id].route = route}

Attached(cache, pg) == OnRoute(cache, pg.route) \cap pg.dom

\* Defect: an annotation made at another width is listed as detached as well.
OtherWidthOrNot(cache, pg) == OnRoute(cache, pg.route) \ pg.dom

\* The panel's two lists: not found at another width, not found at this one.
OtherWidth(cache, pg) ==
  {id \in OnRoute(cache, pg.route) \ pg.dom : cache[id].narrow # pg.narrow}

Detached(cache, pg) ==
  {id \in OnRoute(cache, pg.route) \ pg.dom : cache[id].narrow = pg.narrow}

Badges(cache, pg) ==
  LET In(statuses) == Cardinality({id \in OnRoute(cache, pg.route) : cache[id].status \in statuses})
  IN  [ attention    |-> In({"pending", "in_progress"}),
        verification |-> In({"fixed_unverified"}),
        drafts       |-> IF pg.submitFlow THEN In({"draft"}) ELSE 0 ]

MarkersOf(cache, attached) == [id \in Ids |-> IF id \in attached THEN cache[id] ELSE Null]

\* syncVisible: the chips next to no marker are dropped.
SyncVisible(chips, attached) == [id \in Ids |-> IF id \in attached THEN chips[id] ELSE Null]

Refreshed(s, pg) ==
  [s EXCEPT !.markers = MarkersOf(s.cache, Attached(s.cache, pg)),
            !.chips = SyncVisible(@, Attached(s.cache, pg)),
            !.other = OtherWidth(s.cache, pg),
            !.detached = Detached(s.cache, pg),
            !.badges = Badges(s.cache, pg)]

Refresh(s) == Refreshed(s, page)

-----------------------------------------------------------------------------
(* The domain store: shown at once, written behind, rolled back on rejection. *)

\* A copy number no object standing for the annotation has.
FreshCopy(s, id) ==
  LET objects == {s.cache[id], s.markers[id]} \cup {s.writes[i].kept[id] : i \in DOMAIN s.writes}
      taken == {o.copy : o \in objects \ {Null}}
  IN  CHOOSE n \in 1 .. Cardinality(taken) + 1 : n \notin taken /\ (1 .. n - 1) \subseteq taken

Object(s, id, record) == IF record = Null THEN Null ELSE [record EXCEPT !.copy = FreshCopy(s, id)]

Plain(record) == IF record = Null THEN Null ELSE [record EXCEPT !.copy = 0]

\* `kept`: the objects a rejection puts back.
Issue(s, kind, id, body, kept) ==
  [s EXCEPT !.writes = Append(@, [kind |-> kind, id |-> id, body |-> Plain(body), kept |-> kept])]

Added(s, id, record) ==
  Issue([s EXCEPT !.cache[id] = Object(s, id, record)], "add", id, record, Nobody)

Updated(s, id, record) ==
  IF s.cache[id] = Null THEN s
  ELSE Issue([s EXCEPT !.cache[id] = Object(s, id, record)], "update", id, record,
             [Nobody EXCEPT ![id] = s.cache[id]])

Removed(s, id) == Issue([s EXCEPT !.cache[id] = Null], "remove", id, Null, s.cache)

ClearedAll(s) == Issue([s EXCEPT !.cache = Nobody], "clear", Null, Null, s.cache)

\* What the backend holds once a write has reached it.
Landed(write) ==
  IF write.kind = "clear" THEN Nobody ELSE [stored EXCEPT ![write.id] = write.body]

\* What a rejected write puts back.  The widget is over a backend without revisions: the
\* branch for a conflict and the confirmed copies (storage.ts:75, 101-105) are CloudStore's.
RolledBack(s, write) ==
  IF write.kind \in {"add", "update"} THEN [s EXCEPT !.cache[write.id] = write.kept[write.id]]
  ELSE [s EXCEPT !.cache = write.kept]

-----------------------------------------------------------------------------
(* The quality runner and its chips. *)

\* A check starts: every run of an annotation gets the next sequence number.
Run(s, id, comment) ==
  IF ~Gate THEN s
  ELSE [s EXCEPT !.seqs[id] = @ + 1,
                 !.pending = @ \cup {id},
                 !.chips[id] = "pending",
                 !.checks = @ \cup {[id |-> id, seq |-> s.seqs[id] + 1, comment |-> comment]}]

\* Defect: the annotation stays pending, and no answer is taken any more.
ForgetNumber(s, id) == [s EXCEPT !.seqs[id] = 0]

Forget(s, id) == [s EXCEPT !.seqs[id] = 0, !.pending = @ \ {id}]

ForgetAll(s) == [s EXCEPT !.seqs = [id \in Ids |-> 0], !.pending = {}, !.chips = Nobody]

\* A vague comment gets a chip, a clear or unjudged one none.
Chip(comment) == IF comment \in Vague THEN "vague" ELSE Null

\* Defect: a failed check is dropped without a trace.
SettledIfOk(s, check, ok) ==
  LET record == s.cache[check.id]
      heard == [s EXCEPT !.pending = @ \ {check.id}, !.chips[check.id] = Chip(check.comment)]
  IN  IF s.seqs[check.id] # check.seq \/ ~ok THEN s
      ELSE IF record = Null THEN heard
      ELSE Updated(heard, check.id,
                   [record EXCEPT !.verdict = [of |-> check.comment, refined |-> FALSE]])

\* The runner compares sequence numbers, stores the verdict and has the chip shown.
Settled(s, check, ok) ==
  LET record == s.cache[check.id]
      heard == [s EXCEPT !.pending = @ \ {check.id},
                         !.chips[check.id] = IF ok THEN Chip(check.comment) ELSE Null]
  IN  IF s.seqs[check.id] # check.seq THEN s
      ELSE IF ~ok \/ record = Null THEN heard
      ELSE Updated(heard, check.id,
                   [record EXCEPT !.verdict = [of |-> check.comment, refined |-> FALSE]])

-----------------------------------------------------------------------------
(* The popup. *)

\* The popup's edit was committed.
OnEdit(s, id, comment) ==
  LET record == s.cache[id]
      edited == IF record = Null THEN s ELSE Updated(s, id, [record EXCEPT !.comment = comment])
  IN  Run(Refresh(edited), id, comment)

Dirty(popup) == popup.draft # Null /\ popup.draft # popup.comment

\* Defect: an open edit is dropped with the popup.
HiddenUnflushed(s) == [s EXCEPT !.popup = Closed]

\* Closing the popup commits the edit that is open in it.
Hidden(s) ==
  LET flushed == IF Dirty(s.popup) THEN OnEdit(s, s.popup.id, s.popup.draft) ELSE s
  IN  [flushed EXCEPT !.popup = Closed]

\* show: the popup that asks for a comment takes the place of any other.
Asking(s) == [Hidden(s) EXCEPT !.popup = [Closed EXCEPT !.kind = "new"]]

\* showDetail: so does the popup of an annotation.
Showing(s, detail) == [Hidden(s) EXCEPT !.popup = detail]

Unselected(s) == [s EXCEPT !.selected = Null, !.suppressed = Null]

\* Escape, Close and a press outside: a detail popup takes its highlight with it.
Dismissed(s) == IF s.popup.kind = "detail" THEN Unselected(Hidden(s)) ELSE Hidden(s)

Detail(s, id) ==
  [Closed EXCEPT !.kind = "detail", !.id = id, !.comment = s.cache[id].comment,
                 !.status = s.cache[id].status, !.verdict = s.cache[id].verdict,
                 !.pending = id \in s.pending]

\* A marker or a chip was clicked: the second click on the same one closes the popup.
MarkerClicked(s, id) ==
  IF s.popup.kind = "detail" /\ s.popup.id = id THEN Unselected(Hidden(s))
  ELSE IF s.cache[id] = Null \/ id \notin page.dom THEN s
  ELSE [Showing(s, Detail(s, id)) EXCEPT !.selected = id, !.suppressed = id]

\* The buttons a status offers, as the popup saw it when it opened.
ActionsFor(status) ==
  CASE status = "draft"            -> {}
    [] status = "pending"          -> {"acknowledge", "dismiss"}
    [] status = "in_progress"      -> {"verify", "dismiss"}
    [] status = "fixed_unverified" -> {"verify", "reject", "dismiss"}
    [] OTHER                       -> {"reopen"}

NeedsReason == {"dismiss", "reject"}

\* Object o, after the status was written into the object the marker of id holds.
Marked(s, id, status, o) ==
  IF o # Null /\ s.markers[id] # Null /\ o.copy = s.markers[id].copy
  THEN [o EXCEPT !.status = status] ELSE o

\* markers.updateStatus writes into an object that may be the one a pending write keeps for
\* its rollback, when no refresh came between.
Relabelled(s, id, status) ==
  LET kept(write) == [write EXCEPT !.kept[id] = Marked(s, id, status, @)]
  IN  [s EXCEPT !.cache[id] = Marked(s, id, status, @),
                !.markers[id] = Marked(s, id, status, @),
                !.writes = [i \in DOMAIN @ |-> kept(@[i])]]

\* applyTransition; a transition the status does not allow throws.
Transition(s, id, action) ==
  IF s.cache[id] = Null \/ s.cache[id].status \notin Sources[action] THEN s
  ELSE Refresh(Relabelled(Updated(s, id, [s.cache[id] EXCEPT !.status = Target[action]]),
                          id, Target[action]))

-----------------------------------------------------------------------------
(* Gestures of the user. *)

Spend(bound, limit) == spent[bound] < limit /\ spent' = [spent EXCEPT ![bound] = @ + 1]

Gesture(s) == Spend("acts", MaxActs) /\ w' = s /\ UNCHANGED <<page, stored, used>>

\* The keyboard is in a text field of the popup; the shortcuts are off.
Typing == w.popup.kind = "new" \/ w.popup.draft # Null \/ w.popup.reason # Null

NotInspecting(s) == [s EXCEPT !.inspecting = FALSE, !.spacing = FALSE]

Toggled(s) == IF s.inspecting THEN NotInspecting(s) ELSE [s EXCEPT !.inspecting = TRUE]

\* Alt+I, or the button; a press on the toolbar is outside of the popup.
ToggleInspect == \/ ~Typing /\ Gesture(Toggled(w))
                 \/ Gesture(Toggled(Dismissed(w)))

ToggleSpacing == ~Typing /\ w.inspecting /\ Gesture([w EXCEPT !.spacing = ~@])

\* In the edit field Escape leaves the field only; in another text field it does not
\* end inspect mode.
Escape ==
  /\ w.inspecting \/ w.popup.kind # "closed"
  /\ Gesture(IF w.popup.draft # Null THEN [w EXCEPT !.popup.draft = Null]
             ELSE IF Typing THEN Dismissed(w) ELSE NotInspecting(Dismissed(w)))

\* A click on an element of the page asks for a comment.
InspectClick ==
  w.inspecting /\ Gesture(Asking(NotInspecting(Dismissed(w))))

SubmitNew ==
  /\ w.popup.kind = "new"
  /\ Spend("acts", MaxActs)
  /\ \E id \in Ids \ used, comment \in Drafts :
       LET record == [ comment |-> comment, status |-> IF page.submitFlow THEN "draft" ELSE "pending",
                       route |-> page.route, narrow |-> page.narrow, verdict |-> Null, copy |-> 0 ]
       IN  /\ page' = [page EXCEPT !.dom = @ \cup {id}]
           /\ used' = used \cup {id}
           /\ w' = Run(Refreshed(Added(Hidden(w), id, record), page'), id, comment)
  /\ UNCHANGED stored

\* Cancel, Close, or a press outside.
CloseButton == w.popup.kind # "closed" /\ w.popup.reason = Null /\ Gesture(Dismissed(w))

PressOutside == w.popup.kind # "closed" /\ Gesture(Dismissed(w))

\* A press on the marker of the open popup is not outside of it.  A press that commits an
\* edit rebuilds the markers, and the click on the marker that was there is lost.
ClickMarker(id) ==
  LET own == w.popup.id = id
  IN  /\ w.markers[id] # Null
      /\ own \/ ~Dirty(w.popup)
      /\ Gesture(MarkerClicked(IF own THEN w ELSE Dismissed(w), id))

ClickChip(id) ==
  w.chips[id] # Null /\ w.suppressed # id /\ Gesture(MarkerClicked(Dismissed(w), id))

EnterEdit ==
  /\ w.popup.kind = "detail" /\ w.popup.draft = Null
  /\ \E text \in Drafts : Gesture([w EXCEPT !.popup.draft = text])

\* Enter, or the field lost the focus.
CommitEdit ==
  LET popup == [w.popup EXCEPT !.draft = Null, !.comment = w.popup.draft]
  IN  /\ w.popup.draft # Null
      /\ w' = IF Dirty(w.popup) THEN [OnEdit(w, popup.id, popup.comment) EXCEPT !.popup = popup]
              ELSE [w EXCEPT !.popup = popup]
      /\ UNCHANGED <<page, stored, used, spent>>

\* A transition button; some ask for a reason first.  The popup goes, its highlight stays.
Choose(action) ==
  /\ w.popup.kind = "detail" /\ w.popup.reason = Null /\ action \in ActionsFor(w.popup.status)
  /\ Gesture(IF action \in NeedsReason THEN [w EXCEPT !.popup.reason = action]
             ELSE Transition(Hidden(w), w.popup.id, action))

GiveReason ==
  w.popup.reason # Null /\ Gesture(Transition(Hidden(w), w.popup.id, w.popup.reason))

CancelReason == w.popup.reason # Null /\ Gesture([w EXCEPT !.popup.reason = Null])

Deleted(s, id) == Refresh(Removed(Forget([Unselected(s) EXCEPT !.chips[id] = Null], id), id))

Delete ==
  w.popup.kind = "detail" /\ w.popup.reason = Null /\ Gesture(Deleted(Hidden(w), w.popup.id))

\* The quality section was built from the verdict the annotation had then.
Judged == Gate /\ w.popup.kind = "detail" /\ ~w.popup.pending /\ w.popup.verdict # Null

Rewritten(s, id) ==
  LET record == s.cache[id]
      refined == IF record.verdict = Null THEN Null ELSE [record.verdict EXCEPT !.refined = TRUE]
  IN  IF record = Null THEN s
      ELSE Updated(s, id, [record EXCEPT !.comment = Rewrite, !.verdict = refined])

UseRewrite ==
  /\ Judged /\ w.popup.verdict.of \in Vague
  /\ Gesture(Refresh(Unselected(Rewritten(Hidden(w), w.popup.id))))

Recheck ==
  LET id == w.popup.id
      s == Unselected(Hidden(w))
  IN  /\ Judged
      /\ Gesture(Run(s, id, IF s.cache[id] = Null THEN w.popup.comment ELSE s.cache[id].comment))

\* Alt+D, or the button.
Clear == \/ ~Typing /\ Gesture(Refresh(ForgetAll(ClearedAll(w))))
         \/ Gesture(Refresh(ForgetAll(ClearedAll(Dismissed(w)))))

Submitted(s) ==
  FoldSet(LAMBDA id, t : Transition(t, id, "submit"), s,
          {id \in OnRoute(s.cache, page.route) : s.cache[id].status = "draft"})

SubmitDrafts == w.badges.drafts > 0 /\ Gesture(Submitted(Dismissed(w)))

\* The delete button of a detached annotation; a press that commits an edit rebuilds it.
DeleteDetached(id) ==
  /\ id \in w.detached /\ ~Dirty(w.popup)
  /\ Gesture(Refresh(Removed(Forget(Dismissed(w), id), id)))

-----------------------------------------------------------------------------
(* The program's own calls, other clients, the page, and answers. *)

\* The page's script calls WebRemarq.acknowledge, claimFix, verify ..., or clearAll.
ApiCall ==
  /\ Spend("news", MaxNews)
  /\ \/ \E id \in Ids, action \in Actions :
          Target[action] \in Others /\ w' = Transition(w, id, action)
     \/ w' = Refresh(ClearedAll(w))
  /\ UNCHANGED <<page, stored, used>>

\* What another client's annotation may be.
Unseen == {store[i] : store \in Stores, i \in Ids} \ {Null}

\* Another client's change has landed and is heard; a repaint is scheduled.
External ==
  /\ Spend("news", MaxNews)
  /\ \E id \in Ids :
       /\ \/ stored[id] # Null /\ stored' = [stored EXCEPT ![id] = Null] /\ used' = used
          \/ \E status \in Others : /\ stored[id] # Null /\ stored[id].status # status
                                    /\ stored' = [stored EXCEPT ![id].status = status]
                                    /\ used' = used
          \/ \E record \in Unseen :
               id \notin used /\ stored' = [stored EXCEPT ![id] = record] /\ used' = used \cup {id}
       /\ w' = [w EXCEPT !.cache[id] = Object(w, id, stored'[id]), !.scheduled = TRUE]
  /\ UNCHANGED page

Load ==
  /\ ~w.loaded
  /\ w' = Refresh([w EXCEPT !.cache = [id \in Ids |-> Object(w, id, stored[id])], !.loaded = TRUE])
  /\ UNCHANGED <<page, stored, used, spent>>

CheckSettles(check) ==
  \/ /\ w' = [Settled(w, check, TRUE) EXCEPT !.checks = @ \ {check}]
     /\ UNCHANGED <<page, stored, used, spent>>
  \/ /\ Spend("faults", MaxFaults)
     /\ w' = [Settled(w, check, FALSE) EXCEPT !.checks = @ \ {check}]
     /\ UNCHANGED <<page, stored, used>>

RefreshFires ==
  /\ w.scheduled
  /\ w' = Refresh([w EXCEPT !.scheduled = FALSE])
  /\ UNCHANGED <<page, stored, used, spent>>

\* history.pushState and its like notify at once; the elements change later.
Navigate ==
  /\ Spend("page", MaxPage)
  /\ \E route \in Routes \ {page.route} : page' = [page EXCEPT !.route = route]
  /\ w' = Refreshed(w, page')
  /\ UNCHANGED <<stored, used>>

PageChanges ==
  /\ Spend("page", MaxPage)
  /\ \E dom \in (SUBSET used) \ {page.dom} : page' = [page EXCEPT !.dom = dom]
  /\ w' = [w EXCEPT !.scheduled = TRUE]
  /\ UNCHANGED <<stored, used>>

Resize ==
  Spend("page", MaxPage) /\ page' = [page EXCEPT !.narrow = ~@] /\ UNCHANGED <<w, stored, used>>

\* The debounced listener looks whether the width has changed.
ResizeSettles ==
  /\ w.narrow # page.narrow
  /\ w' = Refresh([w EXCEPT !.narrow = page.narrow])
  /\ UNCHANGED <<page, stored, used, spent>>

\* The adapter answers its calls in order.
WriteLands ==
  /\ w.writes # <<>>
  /\ stored' = Landed(Head(w.writes))
  /\ w' = [w EXCEPT !.writes = Tail(@)]
  /\ UNCHANGED <<page, used, spent>>

\* Defect: the cache is rolled back and the page not repainted.
WriteRejectedUnseen ==
  /\ w.writes # <<>>
  /\ Spend("faults", MaxFaults)
  /\ w' = RolledBack([w EXCEPT !.writes = Tail(@)], Head(w.writes))
  /\ UNCHANGED <<page, stored, used>>

WriteRejected ==
  /\ w.writes # <<>>
  /\ Spend("faults", MaxFaults)
  /\ w' = Refresh(RolledBack([w EXCEPT !.writes = Tail(@)], Head(w.writes)))
  /\ UNCHANGED <<page, stored, used>>

UserActs ==
  \/ ToggleInspect \/ ToggleSpacing \/ Escape \/ InspectClick \/ SubmitNew
  \/ CloseButton \/ PressOutside
  \/ \E id \in Ids : ClickMarker(id) \/ ClickChip(id) \/ DeleteDetached(id)
  \/ EnterEdit \/ CommitEdit \/ UseRewrite \/ Recheck \/ Delete \/ Clear \/ SubmitDrafts
  \/ \E action \in Actions : Choose(action)
  \/ GiveReason \/ CancelReason

Answers ==
  Load \/ RefreshFires \/ ResizeSettles \/ WriteLands \/ \E check \in w.checks : CheckSettles(check)

Next ==
  UserActs \/ Answers \/ WriteRejected \/ ApiCall \/ External \/ Navigate \/ PageChanges \/ Resize

\* Promises, timers and animation frames run; the user and other clients need not.
Spec ==
  /\ Init /\ [][Next]_vars
  /\ WF_vars(Load) /\ WF_vars(RefreshFires) /\ WF_vars(ResizeSettles) /\ WF_vars(WriteLands)
  /\ WF_vars(\E check \in w.checks : CheckSettles(check))

-----------------------------------------------------------------------------
(* What is checked. *)

\* The widget's parts are of their types.
TypeOK ==
  /\ w.cache \in [Ids -> Records \cup {Null}] /\ w.markers \in [Ids -> Records \cup {Null}]
  /\ w.chips \in [Ids -> {Null, "pending", "vague"}] /\ w.pending \subseteq Ids
  /\ {w.selected, w.suppressed, w.popup.id} \subseteq Ids \cup {Null}
  /\ w.popup.kind \in {"closed", "new", "detail"}
  /\ (w.popup.kind = "detail") <=> (w.popup.id # Null)
  /\ w.other \cap w.detached = {}
  /\ stored \in [Ids -> Records \cup {Null}] /\ used \subseteq Ids
  /\ page \in [route : Routes, dom : SUBSET used, narrow : BOOLEAN, submitFlow : SubmitFlows]

\* A popup about an annotation stands at a highlighted element whose chip is hidden, through
\* refreshes, routes, rejections and other clients (web-remarq.ts:472-473).
PopupIsHighlighted ==
  w.popup.kind = "detail" => w.selected = w.popup.id /\ w.suppressed = w.popup.id

\* The panel lists what is not found at width `narrow`.
PanelAt(narrow) ==
  LET pg == [page EXCEPT !.narrow = narrow]
  IN  w.detached = Detached(w.cache, pg) /\ w.other = OtherWidth(w.cache, pg)

\* The markers with their status, the badges and the panel show the store and the page, the
\* panel at the width there was when it was painted.
Shown ==
  /\ \A id \in Ids : /\ (w.markers[id] # Null) <=> (id \in Attached(w.cache, page))
                     /\ w.markers[id] # Null => w.markers[id].status = w.cache[id].status
  /\ w.badges = Badges(w.cache, page)
  /\ \E narrow \in BOOLEAN : PanelAt(narrow)

\* Whoever changes the store or the page repaints or schedules a repaint, a rollback and an
\* answer of load() included (web-remarq.ts:105-114, 663, 720, 727, 736).
ShownOrScheduled == Shown \/ w.scheduled

\* The panel is the one of this width, too, unless the listener has not noticed it yet.
Painted == Shown /\ (w.narrow = page.narrow => PanelAt(page.narrow))

\* A refresh when the window's width changes its bucket, as the listener is there to do
\* (viewport.ts:25-31, web-remarq.ts:175).
PaintedOrScheduled == Painted \/ w.scheduled

\* Every check the interface shows as pending is one whose answer will be taken
\* (quality-runner.ts:30-50).
PendingIsAwaited ==
  \A id \in w.pending : \E check \in w.checks : check.id = id /\ check.seq = w.seqs[id]

\* However a popup goes, the edit open in it is written: by Close, a press outside, another
\* marker, a transition, an inspect click (popup.ts:467-471).
EditsAreKept ==
  [][ LET popup == w.popup
          gone == w'.popup.kind # "detail" \/ w'.popup.id # popup.id
      IN  Dirty(popup) /\ gone /\ w.cache[popup.id] # Null =>
            \E i \in DOMAIN w'.writes :
              i > Len(w.writes) /\ w'.writes[i].id = popup.id
              /\ w'.writes[i].body # Null /\ w'.writes[i].body.comment = popup.draft ]_vars

\* No annotation is shown as being checked for ever.
ChecksEnd == \A id \in Ids : [](id \in w.pending => <>(id \notin w.pending))

\* "a failed write is never shown as saved" (storage.ts:34): with every write answered, the
\* page shows the statuses the backend holds.
FailedIsNotShown ==
  (w.loaded /\ w.writes = <<>>) =>
    \A id \in Ids : w.cache[id] # Null /\ stored[id] # Null => w.cache[id].status = stored[id].status

\* "drop the highlight here or it stays lit with no popup to explain it"
\* (web-remarq.ts:372-373).
HighlightHasPopup == w.selected # Null => w.popup.kind = "detail"

\* "discards verdicts that went stale because the comment changed while the check was in
\* flight" (quality-runner.ts:14-15): a verdict of the checker is about the comment it is
\* stored with.
VerdictIsOfItsComment ==
  \A id \in Ids : LET record == w.cache[id]
                  IN  record # Null /\ record.verdict # Null /\ ~record.verdict.refined =>
                        record.verdict.of = record.comment \/ id \in w.pending
=============================================================================
