----------------------------- MODULE CursorCache -----------------------------
(***************************************************************************)
(* The host's cursor on the controller's screen: the observer that polls   *)
(* the operating system, cursor_pump with its cache of shapes already sent *)
(* and its throttle, the bounded outbound queue, the control stream and    *)
(* the sink with its own cache.  A shape is its pixels and its hot spot;   *)
(* on the stream it is known by an id.                                        *)
(***************************************************************************)
EXTENDS Naturals, Sequences, SequencesExt

CONSTANTS Observers,     \* subset of {"x11", "windows", "mac"}
          Pixels,        \* bitmaps
          HotSpots,
          Places,        \* normalized positions
          CacheCap,      \* CURSOR_CACHE_CAP
          QueueDepth,    \* OUTBOUND_QUEUE_DEPTH
          WireDepth,     \* messages on their way
          MaxCursorLosses,
          NoShape,       \* a hidden cursor
          NoPlace        \* nothing reported yet

ASSUME CursorAssumption ==
  /\ Observers \subseteq {"x11", "windows", "mac"}
  /\ CacheCap \in Nat \ {0} /\ QueueDepth \in Nat \ {0} /\ WireDepth \in Nat \ {0}
  /\ MaxCursorLosses \in Nat

Shapes == [pixels : Pixels, hot : HotSpots]

VARIABLES
  observer,
  cursor,     \* the shape the system shows, or NoShape
  place,      \* where it is
  lastId,     \* last_id: the shape last reported
  lastPlace,  \* last_pos
  order,      \* CursorCache.order: ids sent in full, oldest first
  throttled,  \* a position was sent less than CURSOR_POSITION_MIN_INTERVAL ago
  outbound,   \* the host's queue
  stream,       \* the control stream
  serving,    \* the host has a transport
  drawn,      \* what the controller draws
  drawnAt,
  sinkCache,  \* the sink's shapes, oldest first
  missed,     \* history: the last shape report did not get into the queue
  breaks      \* connections lost

cursorVars == <<observer, cursor, place, lastId, lastPlace, order, throttled, outbound, stream,
                serving, drawn, drawnAt, sinkCache, missed, breaks>>

(* The id is a hash: of the pixels alone, on macOS of the hot spot too.  A  *)
(* hidden cursor has a sentinel.                                            *)
IdOf(s) == IF s = NoShape THEN NoShape ELSE IF observer = "mac" THEN s ELSE s.pixels

CursorInit ==
  /\ observer \in Observers /\ cursor = NoShape /\ place \in Places
  /\ lastId = NoPlace /\ lastPlace = NoPlace /\ order = <<>> /\ throttled = FALSE
  /\ outbound = <<>> /\ stream = <<>> /\ serving = TRUE
  /\ drawn = NoShape /\ drawnAt = NoPlace /\ sinkCache = <<>> /\ missed = FALSE /\ breaks = 0
-----------------------------------------------------------------------------
CursorChanges(s, p) ==
  /\ <<s, p>> # <<cursor, place>> /\ cursor' = s /\ place' = p
  /\ UNCHANGED <<observer, lastId, lastPlace, order, throttled, outbound, stream, serving, drawn,
                 drawnAt, sinkCache, missed, breaks>>

(* CursorCache.insert: first in, first out, a known id keeps its turn.      *)
Inserted(c, id) ==
  IF Contains(c, id) THEN c
  ELSE IF Len(c) >= CacheCap THEN Append(Tail(c), id) ELSE Append(c, id)

(* try_send: the newest is dropped when the queue is full.                  *)
QueueRoom == Len(outbound) < QueueDepth
Offered(msg) == IF QueueRoom THEN Append(outbound, msg) ELSE outbound

ShapeMsg(s) == IF s = NoShape THEN [kind |-> "hidden"]
               ELSE IF Contains(order, IdOf(s)) THEN [kind |-> "cached", id |-> IdOf(s)]
               ELSE [kind |-> "shape", id |-> IdOf(s), shape |-> s]

(* A shape is recorded as sent only once it is in the queue.                *)
Recorded_Always(s) == IF s = NoShape THEN order ELSE Inserted(order, IdOf(s))
Recorded(s) == IF s = NoShape \/ ~QueueRoom THEN order ELSE Inserted(order, IdOf(s))

(* The observer finds another shape: that first, and on X11 and Windows the *)
(* position counts as reported with it.                                     *)
ShapeReport ==
  /\ IdOf(cursor) # lastId
  /\ lastId' = IdOf(cursor)
  /\ lastPlace' = IF observer = "mac" THEN lastPlace ELSE place
  /\ outbound' = Offered(ShapeMsg(cursor)) /\ order' = Recorded(cursor) /\ missed' = ~QueueRoom
  /\ UNCHANGED <<observer, cursor, place, throttled, stream, serving, drawn, drawnAt, sinkCache, breaks>>

(* The shape is the one before and the cursor moved: sent, unless a move    *)
(* was sent a moment ago or the queue is full.                              *)
MoveReport ==
  /\ IdOf(cursor) = lastId /\ place # lastPlace /\ lastPlace' = place
  /\ IF throttled \/ ~QueueRoom THEN UNCHANGED <<outbound, throttled>>
     ELSE outbound' = Append(outbound, [kind |-> "position", at |-> place]) /\ throttled' = TRUE
  /\ UNCHANGED <<observer, cursor, place, lastId, order, stream, serving, drawn, drawnAt, sinkCache,
                 missed, breaks>>

IntervalPasses ==
  /\ throttled /\ throttled' = FALSE
  /\ UNCHANGED <<observer, cursor, place, lastId, lastPlace, order, outbound, stream, serving, drawn,
                 drawnAt, sinkCache, missed, breaks>>

(* The control loop; while it serves again it does not look at the queue.   *)
LoopForwards ==
  /\ serving /\ outbound # <<>> /\ Len(stream) < WireDepth
  /\ stream' = Append(stream, Head(outbound)) /\ outbound' = Tail(outbound)
  /\ UNCHANGED <<observer, cursor, place, lastId, lastPlace, order, throttled, serving, drawn,
                 drawnAt, sinkCache, missed, breaks>>

(* What is on the stream goes with the connection.                            *)
ConnectionBreaks ==
  /\ serving /\ breaks < MaxCursorLosses /\ breaks' = breaks + 1
  /\ serving' = FALSE /\ stream' = <<>>
  /\ UNCHANGED <<observer, cursor, place, lastId, lastPlace, order, throttled, outbound, drawn,
                 drawnAt, sinkCache, missed>>

ServedAgain ==
  /\ ~serving /\ serving' = TRUE
  /\ UNCHANGED <<observer, cursor, place, lastId, lastPlace, order, throttled, outbound, stream, drawn,
                 drawnAt, sinkCache, missed, breaks>>

(* The controller, and a sink that keeps its contract: what it knows by an  *)
(* id it can draw, anything else it leaves as it is.                        *)
Known(id) == {s \in Shapes : Contains(sinkCache, <<id, s>>)}
SinkKeeps(id, s) ==
  IF \E i \in DOMAIN sinkCache : sinkCache[i][1] = id THEN sinkCache
  ELSE IF Len(sinkCache) >= CacheCap THEN Append(Tail(sinkCache), <<id, s>>)
  ELSE Append(sinkCache, <<id, s>>)

Draws(msg) ==
  /\ drawn' = CASE msg.kind = "hidden" -> NoShape
                [] msg.kind = "shape" -> msg.shape
                [] msg.kind = "cached" -> IF Known(msg.id) = {} THEN drawn
                                          ELSE CHOOSE s \in Known(msg.id) : TRUE
                [] msg.kind = "position" -> drawn
  /\ drawnAt' = IF msg.kind = "position" THEN msg.at ELSE drawnAt
  /\ sinkCache' = IF msg.kind = "shape" THEN SinkKeeps(msg.id, msg.shape) ELSE sinkCache

ControllerReads ==
  /\ stream # <<>> /\ Draws(Head(stream)) /\ stream' = Tail(stream)
  /\ UNCHANGED <<observer, cursor, place, lastId, lastPlace, order, throttled, outbound, serving,
                 missed, breaks>>

CursorNext ==
  \/ \E s \in Shapes \cup {NoShape}, p \in Places : CursorChanges(s, p)
  \/ ShapeReport \/ MoveReport \/ IntervalPasses
  \/ LoopForwards \/ ConnectionBreaks \/ ServedAgain \/ ControllerReads

CursorSpec == CursorInit /\ [][CursorNext]_cursorVars
-----------------------------------------------------------------------------
Ids == {IdOf(s) : s \in Shapes}

CursorTypeOK ==
  /\ observer \in Observers /\ cursor \in Shapes \cup {NoShape} /\ place \in Places
  /\ lastId \in Ids \cup {NoShape, NoPlace} /\ lastPlace \in Places \cup {NoPlace}
  /\ Len(order) <= CacheCap /\ ToSet(order) \subseteq Ids /\ IsInjective(order)
  /\ throttled \in BOOLEAN /\ serving \in BOOLEAN /\ missed \in BOOLEAN
  /\ Len(outbound) <= QueueDepth /\ Len(stream) <= WireDepth
  /\ drawn \in Shapes \cup {NoShape} /\ drawnAt \in Places \cup {NoPlace}
  /\ Len(sinkCache) <= CacheCap

(* When everything sent has arrived over one connection, and the last       *)
(* report was not dropped, the controller draws the shape the observer last *)
(* reported, whatever was dropped, sent by reference or evicted on the way: *)
(* the two caches evict in step.                                            *)
AllArrived == outbound = <<>> /\ stream = <<>> /\ ~missed
DrawsTheReport == AllArrived /\ breaks = 0 /\ lastId # NoPlace => IdOf(drawn) = lastId

(* The same over connections that break, which cursor_pump takes for        *)
(* granted, ...                                                             *)
DrawsAfterBreaks == AllArrived /\ lastId # NoPlace => IdOf(drawn) = lastId

(* ... the shape itself, hot spot included, which the hash of the pixels is *)
(* said to stand for, ...                                                   *)
DrawsTheCursor == AllArrived /\ breaks = 0 /\ IdOf(cursor) = lastId => drawn = cursor

(* ... and the place the cursor comes to rest at, which the throttle is     *)
(* said to let through.                                                     *)
RestingPlaceLands ==
  outbound = <<>> /\ stream = <<>> /\ breaks = 0 /\ IdOf(cursor) = lastId /\ place = lastPlace
    => drawnAt = place
=============================================================================
