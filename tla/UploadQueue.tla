---------------------------- MODULE UploadQueue ----------------------------
(***************************************************************************)
(* The upload widget of LAM's self-service pages (fineuploader 3.0): the   *)
(* handler's queue of files, of which the first MaxConnections are being   *)
(* sent, the automatic and manual retries, the links of the list, and the  *)
(* counter that decides whether the page may be left without a question.   *)
(* File ids are the positions of the files in the handler's array; a file  *)
(* that was cancelled leaves a hole there.  `pending' holds the requests   *)
(* that are open and the retry timers that run, as the closures they are:  *)
(* with the id and with the file they were made for.  An exception in a    *)
(* handler ends it where it is thrown.                                     *)
(***************************************************************************)
EXTENDS Integers, Sequences, SequencesExt, Bags

CONSTANTS UploadModes,     \* [autoUpload, multiple, showButton : BOOLEAN], options
          MaxConnections,  \* option maxConnections
          MaxAutoAttempts, \* option retry.maxAutoAttempts; 0 is enableAuto = false
          MaxSubmits,      \* bound: files the user chooses
          MaxResets,       \* bound: calls of reset
          MaxManual        \* bound: clicks on retry

ASSUME UploadAssumption ==
  /\ UploadModes \subseteq [autoUpload : BOOLEAN, multiple : BOOLEAN, showButton : BOOLEAN]
  /\ MaxConnections \in Nat \ {0} /\ MaxAutoAttempts \in Nat
  /\ MaxSubmits \in Nat /\ MaxResets \in Nat /\ MaxManual \in Nat

VARIABLES uploadMode,  \* the options of the widget
          widget,      \* see Fresh
          pending,     \* bag of [what : {"request", "timer"}, id, file]
          uploadCount, \* [submits, resets, manual]
          astray       \* ghost: one of the calls that leave the widget inconsistent

uploadVars == <<uploadMode, widget, pending, uploadCount, astray>>

Gone == 0        \* files[id] is null, or there is no such id
Kind(id, file, what) == [what |-> what, id |-> id, file |-> file]

Fresh ==
  [files    |-> <<>>,  \* _files
   queue    |-> <<>>,  \* _queue of the handler
   stored   |-> <<>>,  \* _storedFileIds
   progress |-> 0,     \* _filesInProgress
   sent     |-> <<>>,  \* _xhrs: the file the last request for an id carried
   retries  |-> <<>>,  \* _autoRetries
   barred   |-> {},    \* _preventRetries
   links    |-> <<>>]  \* the list: which link an item shows

File(w, id) == IF id \in DOMAIN w.files THEN w.files[id] ELSE Gone
Listed(w, id) == id \in DOMAIN w.links
Retries(w, id) == IF id \in DOMAIN w.retries THEN w.retries[id] ELSE 0
With(f, id, v) == [i \in DOMAIN f \union {id} |-> IF i = id THEN v ELSE f[i]]

UploadInit ==
  /\ uploadMode \in UploadModes
  /\ widget = Fresh
  /\ pending = EmptyBag
  /\ uploadCount = [submits |-> 0, resets |-> 0, manual |-> 0]
  /\ astray = FALSE
-----------------------------------------------------------------------------
(* The handler, on s = [w |-> the widget, p |-> what is pending].          *)

\* _upload throws for a file that is gone (getName) or not listed (_showSpinner).
Uploads(w, id) == File(w, id) # Gone /\ Listed(w, id)

SendFile(s, id) ==
  IF ~Uploads(s.w, id) THEN s
  ELSE [w |-> [s.w EXCEPT !.sent = With(@, id, s.w.files[id])],
        p |-> s.p (+) SetToBag({Kind(id, s.w.files[id], "request")})]

\* Mutant of Upload: the new entry always starts.
UploadAlways(s, id) == SendFile([s EXCEPT !.w.queue = Append(@, id)], id)

\* upload: the new entry starts if there is a free connection.
Upload(s, id) ==
  LET t == [s EXCEPT !.w.queue = Append(@, id)] IN
  IF Len(t.w.queue) <= MaxConnections THEN SendFile(t, id) ELSE t

\* retry: a file that kept its place is sent at once, another one queues again.
Retry(s, id) ==
  IF id \in ToSet(s.w.queue) THEN SendFile(s, id) ELSE Upload(s, id)

\* indexOf: 0 for an id that is not in the queue.
IndexOf(q, id) ==
  IF id \in ToSet(q) THEN CHOOSE i \in DOMAIN q : q[i] = id /\ id \notin ToSet(SubSeq(q, 1, i - 1))
  ELSE 0

\* splice(-1, 1), for an id that is not there, takes the last entry.
Spliced(q, i) == IF i > 0 THEN RemoveAt(q, i) ELSE IF q = <<>> THEN q ELSE Front(q)

\* Mutant of Dequeue: the next upload is not started.
DequeueOnly(s, id) == [s EXCEPT !.w.queue = Spliced(@, IndexOf(@, id))]

\* _dequeue, and the upload of the entry that has moved up to the last connection.
Dequeue(s, id) ==
  LET i == IndexOf(s.w.queue, id)
      t == [s EXCEPT !.w.queue = Spliced(@, i)]
  IN  IF Len(t.w.queue) >= MaxConnections /\ i <= MaxConnections
      THEN SendFile(t, t.w.queue[MaxConnections]) ELSE t

\* Whether that upload throws.
DequeueThrows(s, id) ==
  LET i == IndexOf(s.w.queue, id)
      q == Spliced(s.w.queue, i)
  IN  Len(q) >= MaxConnections /\ i <= MaxConnections /\ ~Uploads(s.w, q[MaxConnections])

Now == [w |-> widget, p |-> pending]
Becomes(s) == widget' = s.w /\ pending' = s.p /\ UNCHANGED uploadMode
-----------------------------------------------------------------------------
(* What the user, the page's script and the server do.                     *)

\* A file is chosen.  A list for one file is emptied for it, with the stored ids.
Submit ==
  /\ uploadCount.submits < MaxSubmits
  /\ uploadCount' = [uploadCount EXCEPT !.submits = @ + 1]
  /\ astray' = (astray \/ (~uploadMode.multiple /\ widget.queue # <<>>))
  /\ LET id == Len(widget.files) + 1
         kept == IF uploadMode.multiple THEN widget.links ELSE <<>>
         w == [widget EXCEPT !.files = Append(@, uploadCount.submits + 1),
                             !.links = With(kept, id, "cancel"),
                             !.stored = IF uploadMode.multiple THEN @ ELSE <<>>]
     IN  IF uploadMode.autoUpload
         THEN Becomes(Upload([w |-> [w EXCEPT !.progress = @ + 1], p |-> pending], id))
         ELSE Becomes([w |-> [w EXCEPT !.stored = Append(@, id)], p |-> pending])

\* uploadStoredFiles: all of them, in order.
UploadStored ==
  /\ widget.stored # <<>>
  /\ LET Next1(s, id) == Upload([s EXCEPT !.w.progress = @ + 1], id)
     IN  Becomes(FoldLeft(Next1, [w |-> [widget EXCEPT !.stored = <<>>], p |-> pending],
                          widget.stored))
  /\ UNCHANGED <<uploadCount, astray>>

\* onprogress with all bytes loaded: the cancel link goes.
LastByte(r) ==
  /\ r.what = "request" /\ Listed(widget, r.id) /\ widget.links[r.id] = "cancel"
  /\ widget' = [widget EXCEPT !.links[r.id] = "none"]
  /\ UNCHANGED <<uploadMode, pending, uploadCount, astray>>

\* What the handler makes of an answer; _onProgress throws if the item is not listed.
Answered(w, r) == File(w, r.id) # Gone /\ Listed(w, r.id)

\* onAutoRetry returned true: the file keeps its place and waits for the timer.
AutoRetry(w, id, barred) == id \notin barred /\ Retries(w, id) < MaxAutoAttempts

\* Mutant of Completed: the counter is forgotten.
CompletedUncounted(s, id, link) ==
  Dequeue([s EXCEPT !.w.links[id] = link, !.w.sent = With(@, id, Gone)], id)

\* onComplete and _dequeue
Completed(s, id, link) ==
  Dequeue([s EXCEPT !.w.progress = @ - 1, !.w.links[id] = link,
                    !.w.sent = With(@, id, Gone)], id)

\* readyState 4: the answer, or the end of a connection that broke.
Answer(r, success, prevent) ==
  /\ r.what = "request"
  /\ UNCHANGED <<uploadCount, astray>>
  /\ LET s == [Now EXCEPT !.p = @ (-) SetToBag({r})]
         barred == IF prevent THEN widget.barred \union {r.id} ELSE widget.barred \ {r.id}
         f == [s EXCEPT !.w.barred = barred]
     IN  IF ~Answered(widget, r) THEN Becomes(s)
         ELSE IF success THEN Becomes(Completed(s, r.id, "none"))
         ELSE IF AutoRetry(widget, r.id, barred)
         THEN Becomes([f EXCEPT !.w.links[r.id] = "cancel",
                                !.w.retries = With(@, r.id, Retries(widget, r.id)),
                                !.p = @ (+) SetToBag({Kind(r.id, widget.files[r.id], "timer")})])
         ELSE Becomes(Completed(f, r.id,
                       IF uploadMode.showButton /\ ~prevent THEN "retry" ELSE "none"))

\* The delay is over.  After reset the count is NaN, which allows no other retry.
TimerFires(t) ==
  /\ t.what = "timer"
  /\ LET n == IF t.id \in DOMAIN widget.retries THEN widget.retries[t.id] + 1 ELSE MaxAutoAttempts
         s == [w |-> [widget EXCEPT !.retries = With(@, t.id, n)],
               p |-> pending (-) SetToBag({t})]
     IN  Becomes(Retry(s, t.id))
  /\ UNCHANGED <<uploadCount, astray>>

\* A click on cancel: _onCancel, abort, _dequeue, and the item goes.
Cancel(id) ==
  /\ Listed(widget, id) /\ widget.links[id] = "cancel" /\ File(widget, id) # Gone
  /\ LET w == widget
         counted == uploadMode.autoUpload \/ id \notin ToSet(w.stored)
         sent == IF id \in DOMAIN w.sent THEN w.sent[id] ELSE Gone
         s == [w |-> [w EXCEPT !.files[id] = Gone, !.sent = With(@, id, Gone),
                               !.progress = IF counted THEN @ - 1 ELSE @,
                               !.stored = IF counted THEN @
                                          ELSE Spliced(@, IndexOf(@, id))],
               p |-> pending (-) SetToBag({Kind(id, sent, "request"),
                                           Kind(id, w.files[id], "timer")})]
         t == Dequeue(s, id)
     IN  Becomes(IF DequeueThrows(s, id) THEN t
                 ELSE [t EXCEPT !.w.links = Restrict(@, DOMAIN @ \ {id})])
  /\ astray' = (astray \/ (id \notin ToSet(widget.queue) /\ widget.queue # <<>>))
  /\ UNCHANGED uploadCount

\* A click on retry.
ManualRetry(id) ==
  /\ uploadCount.manual < MaxManual
  /\ Listed(widget, id) /\ widget.links[id] = "retry"
  /\ uploadCount' = [uploadCount EXCEPT !.manual = @ + 1]
  /\ UNCHANGED astray
  /\ LET w == [widget EXCEPT !.progress = @ + 1, !.links[id] = "cancel"]
     IN  Becomes(IF id \in widget.barred \/ File(widget, id) = Gone
                 THEN [Now EXCEPT !.w.links[id] = "none"]
                 ELSE Retry([w |-> w, p |-> pending], id))

\* reset, of a widget with a list of its own: requests and timers go on.
Reset ==
  /\ uploadCount.resets < MaxResets
  /\ uploadCount' = [uploadCount EXCEPT !.resets = @ + 1]
  /\ astray' = (astray \/ pending # EmptyBag)
  /\ Becomes([w |-> Fresh, p |-> pending])

Files == DOMAIN widget.files
Closures == BagToSet(pending)

UploadNext ==
  \/ Submit \/ UploadStored \/ Reset
  \/ \E r \in Closures :
       \/ LastByte(r) \/ TimerFires(r)
       \/ \E success, prevent \in BOOLEAN : Answer(r, success, prevent)
  \/ \E id \in Files : Cancel(id) \/ ManualRetry(id)

\* Every request ends and every timer fires.
UploadFairness ==
  WF_uploadVars(\E r \in Closures :
                  \/ TimerFires(r)
                  \/ \E success, prevent \in BOOLEAN : Answer(r, success, prevent))
-----------------------------------------------------------------------------
(* Properties.  They hold until a call sends the widget astray: a file     *)
(* chosen for a one-file list while another one is on its way, the         *)
(* cancelling of a stored file while others are queued, or reset while     *)
(* something is pending.                                                   *)

Queued(id) == id \in ToSet(widget.queue)
PendingFor(id) == {r \in Closures : r.id = id}

\* The first MaxConnections entries of the queue, and only these, have a request or
\* a retry timer, one each, and it is for the file that has the id now: no
\* connection is left idle, none is used twice, and nothing is sent after a cancel.
ConnectionsUsed ==
  astray \/ LET q == widget.queue IN
            /\ IsInjective(q)
            /\ {r.id : r \in Closures} = {q[i] : i \in 1..Min({Len(q), MaxConnections})}
            /\ \A r \in Closures :
                 /\ pending[r] = 1 /\ PendingFor(r.id) = {r}
                 /\ File(widget, r.id) = r.file

\* What the page shows is true: it asks before it is left (_filesInProgress is not 0,
\* line 629) exactly while files are queued; a cancel link is only shown for a file
\* that is queued or stored, and a retry link only for one that is neither: the
\* handlers of the two clicks rely on the links for this.
LeaveAsks == widget.progress = Len(widget.queue)
LinksTrue ==
  \A id \in DOMAIN widget.links :
    LET waits == Queued(id) \/ id \in ToSet(widget.stored) IN
    /\ widget.links[id] = "cancel" => waits
    /\ widget.links[id] = "retry" => ~waits
PageTrue == astray \/ (LeaveAsks /\ LinksTrue)

\* Every file that is queued leaves the queue: sent, given up or cancelled.
UploadsEnd == \A id \in 1..MaxSubmits : Queued(id) ~> (~Queued(id) \/ astray)
=============================================================================
