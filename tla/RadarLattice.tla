---------------------------- MODULE RadarLattice ----------------------------
(***************************************************************************)
(* A radar answer, from the pictures on the bot's disk to the level the    *)
(* phone reads over a place: radar/source.py and picture.py (which file,   *)
(* taken when), radar/tiles.py and service.py (which product, which cells) *)
(* and MeshWXRadar.js (which tile, which cell).                            *)
(*                                                                         *)
(* Coordinates are ten-thousandths of a degree, times are minutes.  A      *)
(* picture is a grid of levels, -1 where a pixel cannot tell; its pixels   *)
(* are squares in degrees (the projection is left out), and the legend     *)
(* and the map lines are pixels that cannot tell.                          *)
(*                                                                         *)
(* A frame is [north, south, west, east, px, calibrated, files]; its files *)
(* are [received, printed, header, readable, lines, levels], printed the   *)
(* minute of the day read off the picture or None, header that of its name *)
(* on a twelve-hour clock or None, lines whether it is drawn on its map.   *)
(***************************************************************************)
EXTENDS CoverageArea

Degree == 10000
FallbackDepth == 3
ReceiveSlackMin == 45
MaxAgeMin == 60
RadarLoopWindowMin == 60
RadarLoopMaxFrames == 5
RadarLoopMinSpacingMin == 10

Least(ns) == CHOOSE n \in ns : \A m \in ns : n <= m
Ceiling(n, d) == -((-n) \div d)

-----------------------------------------------------------------------------
(* Pictures: when one was taken, and which of a product is the newest.      *)

IsPlausibleDelay(min) == min \in -2..45

\* The printed time of the day of reception or of the day before; else the
\* latest time the header may mean; else the reception.
TakenOf(file) ==
  LET today == (file.received - (file.received % 1440)) + file.printed
      printed == IF today > file.received + 2 THEN today - 1440 ELSE today
      limit == file.received + 2
  IN IF file.printed # None /\ IsPlausibleDelay(file.received - printed) THEN printed
     ELSE IF file.header # None THEN limit - ((limit - file.header) % 720)
     ELSE file.received

NewestReceived(files) ==
  LET Later(a, b) == a.received > b.received
  IN SortSeq(files, Later)

Newest(frame) ==
  LET IsReadable(file) == file.readable
      readable == SelectSeq(UpTo(NewestReceived(frame.files), FallbackDepth), IsReadable)
  IN IF readable = <<>> THEN None ELSE Head(readable)

\* Received before the newest, no longer than a loop and the slack.
Older(frame, newest) ==
  LET IsOlder(file) == /\ file # newest /\ file.readable
                       /\ file.received \in (newest.received - RadarLoopWindowMin
                                              - ReceiveSlackMin)..newest.received
  IN SelectSeq(NewestReceived(frame.files), IsOlder)

-----------------------------------------------------------------------------
(* Tiles.                                                                   *)

TileSpan(zoom) == 2^(zoom + 1) * Degree

\* The tile whose centre is the nearest, a tie going up.
RadarTile(lat, lon, zoom) ==
  LET step == 2^zoom
      origin(v) == ((2 * v + step * Degree) \div (2 * step * Degree)) * step - step
  IN [south |-> origin(lat), west |-> origin(lon), zoom |-> zoom]

North(tile) == tile.south * Degree + TileSpan(tile.zoom)
Overlap(low, high, tileLow, span) ==
  LET from == Largest({low, tileLow})
      to == Least({high, tileLow + span})
  IN IF to < from THEN 0 ELSE to - from

\* The part of a tile inside the picture, in ten-thousandths.
CoveredPart(frame, tile) ==
  LET span == TileSpan(tile.zoom)
      w == Overlap(frame.west, frame.east, tile.west * Degree, span)
      h == Overlap(frame.south, frame.north, tile.south * Degree, span)
  IN (((100 * w) \div (span \div 100)) * (h \div 100)) \div (span \div 100)

\* Whole before part, then the larger part, then the finer picture.
Candidates(frames, tile) ==
  LET part == [i \in DOMAIN frames |-> CoveredPart(frames[i], tile)]
      isWhole(i) == part[i] >= 9990
      percent(i) == Nearest(part[i], 100)
      MayServe(i) == frames[i].calibrated /\ part[i] >= 2500
      Better(i, k) ==
        CASE isWhole(i) # isWhole(k) -> isWhole(i)
          [] ~isWhole(i) /\ ~isWhole(k) /\ percent(i) # percent(k) -> percent(i) > percent(k)
          [] OTHER -> frames[i].px < frames[k].px \/ (frames[i].px = frames[k].px /\ i < k)
  IN SortSeq(SelectSeq([i \in DOMAIN frames |-> i], MayServe), Better)

\* The strongest echo of a cell; a large cell wants two pixels of it.
Strongest(levels, pixels) ==
  LET n(l) == Cardinality({p \in pixels : levels[p[1]][p[2]] >= l})
      need == IF n(0) < 12 THEN 1 ELSE 2
  IN IF n(0) = 0 THEN None ELSE Largest({0} \union {l \in 1..3 : n(l) >= need})

\* The lower of the two in the middle.
MedianLow(counts) ==
  LET Plus(a, b) == a + b
      upTo(l) == FoldFunctionOnSet(Plus, 0, counts, 0..l)
  IN Least({l \in 0..3 : 2 * upTo(l) >= upTo(3)})

Around(r, c, rows, cols) == {p \in ((r - 1)..(r + 1)) \X ((c - 1)..(c + 1)) :
                               p[1] \in rows /\ p[2] \in cols}

\* Evaluated once, row by row: a concatenation is.
Settled(grid) == <<>> \o [r \in DOMAIN grid |-> <<>> \o grid[r]]

\* Cells that could not tell take the middle of their neighbours.
Filled(grid, rows, cols) ==
  LET value(r, c) ==
        LET known == {p \in Around(r, c, rows, cols) : grid[p[1]][p[2]] # None}
        IN IF known = {} THEN None
           ELSE MedianLow([l \in 0..3 |-> Cardinality({p \in known : grid[p[1]][p[2]] = l})])
  IN Settled([r \in 1..RadarGrid |-> [c \in 1..RadarGrid |->
                IF r \in rows /\ c \in cols /\ grid[r][c] = None THEN value(r, c)
                ELSE grid[r][c]]])

\* A light cell alone is clutter more often than rain.
WithoutLone(grid) ==
  LET isLone(r, c) == grid[r][c] = 1 /\ \A p \in Around(r, c, 1..RadarGrid, 1..RadarGrid) :
                                          p = <<r, c>> \/ grid[p[1]][p[2]] = 0
  IN Settled([r \in 1..RadarGrid |-> [c \in 1..RadarGrid |->
                IF isLone(r, c) THEN 0 ELSE grid[r][c]]])

CellRows(frame, tile) ==
  LET cell == TileSpan(tile.zoom) \div RadarGrid
  IN {r \in 1..RadarGrid : /\ North(tile) - (r - 1) * cell <= frame.north
                           /\ North(tile) - r * cell >= frame.south}
CellCols(frame, tile) ==
  LET cell == TileSpan(tile.zoom) \div RadarGrid
  IN {c \in 1..RadarGrid : /\ tile.west * Degree + (c - 1) * cell >= frame.west
                           /\ tile.west * Degree + c * cell <= frame.east}

\* The pixels a cell touches, from its edges' distance to the picture's own.
Touched(from, to, px, count) ==
  LET first == from \div px + 1
      last == Largest({Ceiling(to, px), first})
  IN first..Least({last, count})

PixelsOf(frame, tile, r, c) ==
  LET cell == TileSpan(tile.zoom) \div RadarGrid
      top == frame.north - North(tile) + (r - 1) * cell
      left == tile.west * Degree - frame.west + (c - 1) * cell
  IN Touched(top, top + cell, frame.px, (frame.north - frame.south) \div frame.px)
       \X Touched(left, left + cell, frame.px, (frame.east - frame.west) \div frame.px)

\* None when no whole cell lies inside the picture.
CutTile(file, frame, tile) ==
  LET rows == CellRows(frame, tile)
      cols == CellCols(frame, tile)
      seen == Settled([r \in 1..RadarGrid |-> [c \in 1..RadarGrid |->
                IF r \in rows /\ c \in cols
                THEN Strongest(file.levels, PixelsOf(frame, tile, r, c)) ELSE None]])
      Again(grid, pass) == Filled(grid, rows, cols)
      filled == FoldLeft(Again, seen, <<1, 2, 3, 4>>)
      known == [r \in 1..RadarGrid |-> [c \in 1..RadarGrid |-> Known(filled[r][c], 0)]]
      isWhole == Cardinality(rows) = RadarGrid /\ Cardinality(cols) = RadarGrid
  IN IF rows = {} \/ cols = {} THEN None
     ELSE tile @@ [rows |-> WithoutLone(Settled(known)),
                   bounds |-> IF isWhole THEN None
                              ELSE <<Least(rows) - 1, Largest(rows) - 1,
                                     Least(cols) - 1, Largest(cols) - 1>>]

-----------------------------------------------------------------------------
(* The service: [tile, file, frame] of the best picture, or of the last     *)
(* hour of the same product, oldest first.                                  *)

TileFor(frames, lat, lon, zoom, now) ==
  LET tile == RadarTile(lat, lon, zoom)
      newest(i) == Newest(frames[i])
      Serves(i) == /\ newest(i) # None /\ newest(i).lines
                   /\ now - TakenOf(newest(i)) <= MaxAgeMin
                   /\ CellRows(frames[i], tile) # {} /\ CellCols(frames[i], tile) # {}
      serving == SelectSeq(Candidates(frames, tile), Serves)
      i == Head(serving)
  IN IF serving = <<>> THEN <<>>
     ELSE <<[tile |-> CutTile(newest(i), frames[i], tile), file |-> newest(i), product |-> i]>>

\* The pictures before the first found, as far back and as far apart as a loop
\* goes, then that one.
LoopBefore(first, frame, square) ==
  LET NewerTaken(a, b) == TakenOf(a) > TakenOf(b)
      Take(loop, file) ==
        IF \/ Len(loop) = RadarLoopMaxFrames
           \/ TakenOf(file) < TakenOf(first.file) - RadarLoopWindowMin
           \/ ~file.lines
           \/ TakenOf(file) > TakenOf(Head(loop).file) - RadarLoopMinSpacingMin
        THEN loop
        ELSE <<[first EXCEPT !.tile = CutTile(file, frame, square), !.file = file]>> \o loop
  IN FoldLeft(Take, <<first>>, SortSeq(Older(frame, first.file), NewerTaken))

LoopFor(frames, lat, lon, zoom, now) ==
  LET Loop(found) == IF found = <<>> THEN <<>>
                     ELSE LoopBefore(found[1], frames[found[1].product],
                                     RadarTile(lat, lon, zoom))
  IN Loop(TileFor(frames, lat, lon, zoom, now))

\* The three decimals a request names its coordinate with.
CoordinateText(v) == 10 * ((v + 5) \div 10)

\* The pictures found, each in a packet where it fits; else why there is none.
RadarPackets(seq, bot, found, held) ==
  LET IsWanted(one) == held = None \/ (TakenOf(one.file) % 1440) \notin held
      wanted == SelectSeq(found, IsWanted)
      IsSent(packet) == packet # Refused
      sent == SelectSeq([i \in DOMAIN wanted |->
                RadarMessage((seq + i - 1) % 256, bot,
                  wanted[i].tile @@ [taken_min |-> TakenOf(wanted[i].file),
                                     product |-> wanted[i].product - 1, source |-> 1])],
                        IsSent)
  IN IF sent # <<>> THEN sent
     ELSE <<EncodeNotAvailable((seq + Len(wanted)) % 256, bot, RequestLetter(WordRadar),
                               IF wanted # found THEN 4 ELSE 0)>>

\* `>radar`, and `>radar loop` without the pictures the phone says it holds.
RadarAnswer(seq, bot, ask, frames, now) ==
  LET lat == CoordinateText(ask.lat)
      lon == CoordinateText(ask.lon)
  IN RadarPackets(seq, bot,
       IF ask.held = None THEN TileFor(frames, lat, lon, ask.zoom, now)
       ELSE LoopFor(frames, lat, lon, ask.zoom, now),
       ask.held)

\* describe: the level over a place, None where the picture does not reach.
LevelHere(tile, lat, lon) ==
  LET cell == TileSpan(tile.zoom) \div RadarGrid
      row == (North(tile) - lat) \div cell + 1
      r == Clamp(row, 1, RadarGrid)
      c == Clamp((lon - tile.west * Degree) \div cell + 1, 1, RadarGrid)
  IN IF /\ lat >= tile.south * Degree /\ lat < North(tile)
        /\ lon >= tile.west * Degree /\ lon < tile.west * Degree + TileSpan(tile.zoom)
        /\ tile.bounds = None \/ Inside(tile.bounds, r, c)
     THEN tile.rows[r][c] ELSE None

-----------------------------------------------------------------------------
(* The phone.                                                               *)

\* The tile it expects for a coordinate, whatever zoom it was given.
Containing(lat, lon, zoom) ==
  LET level == Clamp(zoom, 0, MaxRadarZoom)
      step == 2^level
      origin(v) == ((2 * v + step * Degree) \div (2 * step * Degree)) * step - step
  IN [south |-> origin(lat), west |-> origin(lon), zoom |-> level]

\* Half-open on the north and on the east.
IsOn(m, lat, lon) ==
  LET span == TileSpan(m.zoom)
  IN lat >= m.south * Degree /\ lat < m.south * Degree + span /\ lon >= m.west * Degree /\ lon < m.west * Degree + span

\* The level read over a place, None off the tile or where it is unknown.
LevelAt(m, lat, lon) ==
  LET size == Len(m.rows)
      cell == TileSpan(m.zoom) \div size
      r == Clamp((m.south * Degree + TileSpan(m.zoom) - lat) \div cell, 0, size - 1) + 1
      c == Clamp((lon - m.west * Degree) \div cell, 0, size - 1) + 1
  IN IF ~IsOn(m, lat, lon) \/ (m.bounds # None /\ ~Inside(m.bounds, r, c)) THEN None
     ELSE m.rows[r][c]
=============================================================================
