---------------------------- MODULE ToolboxProofs ----------------------------
(***************************************************************************)
(* The windows, dialogs and menus of Toolbox, for any windows of any        *)
(* height, any screen, menus of any length and any number of events:        *)
(*                                                                          *)
(*   - the screen shows what the list of windows says, drawn or to be       *)
(*     drawn, and clicks go where it says;                                  *)
(*   - what is drawn by exclusive-or is undone;                             *)
(*   - the active window is the one in front.                               *)
(***************************************************************************)
EXTENDS Toolbox, SequenceTheorems, WellFoundedInduction, TLAPS

(* The fields of a state d of the Window Manager and of a window's record.  *)
Fields(r) ==
  r = [top |-> r.top, hilited |-> r.hilited, structure |-> r.structure, content |-> r.content,
       visible |-> r.visible, clip |-> r.clip, update |-> r.update]
RecordOK(w, r) ==
  /\ Fields(r)
  /\ r.top \in Tops /\ r.hilited \in {0, 1, 255}
  /\ r.structure \subseteq RowsOf(w) /\ r.content \subseteq RowsOf(w)
  /\ r.visible \subseteq RowsOf(w) /\ r.clip \subseteq RowsOf(w) /\ r.update \subseteq RowsOf(w)
IsState(d) ==
  d = [window_list |-> d.window_list, record |-> d.record, updates |-> d.updates,
       activates |-> d.activates, screen |-> d.screen, inverted |-> d.inverted]
ListOK(list) ==
  /\ list \in Seq(Windows)
  /\ \A i, j \in 1..Len(list) : list[i] = list[j] => i = j
Typed(d) ==
  /\ IsState(d)
  /\ ListOK(d.window_list)
  /\ d.record = [w \in Windows |-> d.record[w]]
  /\ \A w \in Windows : RecordOK(w, d.record[w])
  /\ d.updates \in Seq(Windows) /\ d.activates \in Seq(Windows \cup {NULL})
  /\ d.screen \in [Rows -> Row]
  /\ d.inverted \subseteq Rows

(* Which window a row belongs to.                                           *)
Places(d) == 1..Len(d.window_list)
RecordAt(d, i) == d.record[d.window_list[i]]
Has(d, i, y) == y \in RecordAt(d, i).structure
First(d, i, y) == i \in Places(d) /\ Has(d, i, y) /\ \A j \in 1..i-1 : ~Has(d, j, y)
Uncovered(d, y) == \A i \in Places(d) : ~Has(d, i, y)

(* A window has its regions where it is, or, a new dialog, none.            *)
Placed(w, r) ==
  \/ r.structure = {} /\ r.content = {}
  \/ r.structure = StructureAt(w, r.top) /\ r.content = ContentAt(w, r.top)

(* The visible region is what is in front, and all that is is updated.      *)
RegionsOK(d) ==
  /\ \A w \in Windows : Placed(w, d.record[w]) /\ d.record[w].visible = d.record[w].update
  /\ \A i \in Places(d) : \A y \in RecordAt(d, i).content :
       y \in RecordAt(d, i).visible <=> First(d, i, y)

ByDialog(d, y) == \E w \in Dialogs : d.screen[y] = Drawn(w)
ScreenOK(d) ==
  \A y \in Rows : ByDialog(d, y) \/
    IF y = 0 THEN d.screen[y] = MenuBarRow
    ELSE /\ Uncovered(d, y) => d.screen[y] = DesktopRow
         /\ \A i \in Places(d) : First(d, i, y) => d.screen[y].of = d.window_list[i]

(* `busy' is the window between BeginUpDate and EndUpDate.                  *)
DrawnOK(d, busy) ==
  \A i \in Places(d) :
    LET w == d.window_list[i]
    IN  w \notin Dialogs /\ w \notin busy /\ ~Contains(d.updates, w) =>
          \A y \in Rows : y \in RecordAt(d, i).content /\ First(d, i, y) =>
            d.screen[y] = Drawn(w) \/ ByDialog(d, y)

ActiveOK(d) ==
  \A i, j \in Places(d) : WrittenBack(RecordAt(d, j).hilited) = 1 /\ i # j =>
    /\ WrittenBack(RecordAt(d, i).hilited) = 0
    /\ i < j => d.window_list[i] \in Dialogs

StateOK(d, busy) ==
  /\ Typed(d) /\ \A w \in Windows : d.record[w].hilited \in {0, 1}
  /\ RegionsOK(d) /\ ScreenOK(d) /\ DrawnOK(d, busy) /\ ActiveOK(d)

(* What a state must have before the windows are invalidated: the rows that *)
(* no window will have show the desktop.                                    *)
WillHave(d, i, y) == y \in StructureAt(d.window_list[i], RecordAt(d, i).top)
Background(d) ==
  \A y \in Rows : ByDialog(d, y) \/
    IF y = 0 THEN d.screen[y] = MenuBarRow
    ELSE (\A i \in Places(d) : ~WillHave(d, i, y)) => d.screen[y] = DesktopRow
Ready(d) ==
  /\ Typed(d) /\ Background(d) /\ ActiveOK(d)
  /\ \A w \in Windows :
       /\ d.record[w].visible = d.record[w].update
       /\ \/ Contains(d.window_list, w)
          \/ Placed(w, d.record[w]) /\ d.record[w].hilited \in {0, 1}
-----------------------------------------------------------------------------
(* Rows                                                                     *)

LEMMA RowsAreNumbers ==
  /\ Bottom \in Nat /\ Rows = 0..Bottom /\ MenuBar = {0} /\ Desktop = 1..Bottom
  /\ Tops \subseteq Nat /\ \A top \in Tops : top >= 2
  /\ \A w \in Windows : Height[w] \in Nat /\ Height[w] >= 1
  /\ NULL \notin Windows /\ Dialogs \subseteq Windows
BY WindowAssumption, DialogAssumption DEF Rows, MenuBar, Desktop

LEMMA WhereWindowsAre ==
  ASSUME NEW w \in Windows, NEW top \in Tops
  PROVE  /\ ContentAt(w, top) \subseteq StructureAt(w, top)
         /\ StructureAt(w, top) \subseteq RowsOf(w)
         /\ InLocalCoordinates(w) \subseteq RowsOf(w)
         /\ \A y \in StructureAt(w, top) : y \in Nat /\ y >= 1
         /\ top - 1 \in StructureAt(w, top)
<1>1. top \in Nat /\ top >= 2 /\ Height[w] \in Nat /\ Height[w] >= 1
  BY RowsAreNumbers
<1>2. ContentAt(w, top) \subseteq StructureAt(w, top)
  BY <1>1 DEF ContentAt, StructureAt
<1>3. \A y \in StructureAt(w, top) : y \in Nat /\ y >= 1
  BY <1>1 DEF StructureAt
<1>4. top - 1 \in StructureAt(w, top)
  BY <1>1 DEF StructureAt
<1>5. StructureAt(w, top) \subseteq RowsOf(w) /\ InLocalCoordinates(w) \subseteq RowsOf(w)
  BY Zenon DEF RowsOf
<1> QED
  BY <1>2, <1>3, <1>4, <1>5

LEMMA HilitedByte ==
  /\ WrittenBack(0) = 0 /\ WrittenBack(1) = 1 /\ WrittenBack(255) = 1
BY DEF WrittenBack

LEMMA PlacesAreListed ==
  ASSUME NEW d, Typed(d)
  PROVE  /\ Len(d.window_list) \in Nat
         /\ \A i \in Places(d) : d.window_list[i] \in Windows /\ RecordOK(d.window_list[i], RecordAt(d, i))
         /\ \A i, j \in Places(d) : d.window_list[i] = d.window_list[j] => i = j
         /\ DOMAIN d.window_list = Places(d)
         /\ \A w : Contains(d.window_list, w) <=> \E i \in Places(d) : d.window_list[i] = w
BY DEF Typed, ListOK, Places, RecordAt, Contains

LEMMA LeastPlace ==
  ASSUME NEW S, S \subseteq Nat, S # {}
  PROVE  \E x \in S : \A y \in S : x <= y
<1> DEFINE R == {ss \in Nat \X Nat : ss[1] < ss[2]}
<1>1. R = OpToRel(<, Nat)
  BY Zenon DEF OpToRel
<1>2. IsWellFoundedOn(R, Nat)
  BY <1>1, NatLessThanWellFounded, Zenon
<1>3. PICK x \in S : \A y \in S : ~(<<y, x>> \in R)
  BY <1>2, WFMin, Zenon
<1>4. \A y, z \in Nat : y < z => <<y, z>> \in R
  OBVIOUS
<1> HIDE DEF R
<1>5. ASSUME NEW y \in S
      PROVE  x <= y
  <2>1. x \in Nat /\ y \in Nat
    OBVIOUS
  <2>2. ~(y < x)
    BY <1>3, <1>4, <2>1, Zenon
  <2> QED
    BY <2>1, <2>2
<1> QED
  BY <1>5

LEMMA ConcatContains ==
  ASSUME NEW S, NEW s \in Seq(S), NEW t \in Seq(S), NEW i \in 1..Len(t)
  PROVE  Contains(s \o t, t[i])
<1>1. Len(s) \in Nat /\ Len(t) \in Nat
  OBVIOUS
<1>2. Len(s) + i \in 1 .. Len(s) + Len(t)
  BY <1>1
<1>3. (s \o t)[Len(s) + i] = t[i] /\ Len(s \o t) = Len(s) + Len(t)
  BY <1>1, <1>2
<1> QED
  BY <1>2, <1>3 DEF Contains

LEMMA FrontmostExists ==
  ASSUME NEW d, Typed(d), NEW y, \E i \in Places(d) : WillHave(d, i, y)
  PROVE  \E i \in Places(d) : WillHave(d, i, y) /\ \A j \in 1..i-1 : ~WillHave(d, j, y)
<1> DEFINE S == {i \in Places(d) : WillHave(d, i, y)}
<1>1. S \subseteq Nat /\ S # {}
  BY PlacesAreListed DEF Places
<1>2. PICK i \in S : \A j \in S : i <= j
  <2> HIDE DEF S
  <2> QED
    BY <1>1, LeastPlace
<1>3. \A j \in 1..i-1 : j \in Places(d) /\ ~(i <= j)
  BY PlacesAreListed DEF Places
<1> QED
  BY <1>2, <1>3

LEMMA FirstExists ==
  ASSUME NEW d, Typed(d), NEW y
  PROVE  Uncovered(d, y) \/ \E i \in Places(d) : First(d, i, y)
<1> DEFINE S == {i \in Places(d) : Has(d, i, y)}
<1>1. S \subseteq Nat
  BY PlacesAreListed DEF Places
<1>2. CASE S = {}
  BY <1>2 DEF Uncovered
<1>3. CASE S # {}
  <2>1. PICK i \in S : \A j \in S : i <= j
    <3> HIDE DEF S
    <3> QED
      BY <1>1, <1>3, LeastPlace
  <2>2. \A j \in 1..i-1 : j \in Places(d) /\ ~(i <= j)
    BY PlacesAreListed DEF Places
  <2> QED
    BY <2>1, <2>2 DEF First
<1> QED
  BY <1>2, <1>3

LEMMA FirstIsUnique ==
  ASSUME NEW d, Typed(d), NEW y, NEW i \in Places(d), NEW j \in Places(d),
         First(d, i, y), First(d, j, y)
  PROVE  i = j
<1>1. i \in Nat /\ j \in Nat /\ i >= 1 /\ j >= 1
  BY PlacesAreListed DEF Places
<1>2. ~(i < j) /\ ~(j < i)
  BY <1>1 DEF First
<1> QED
  BY <1>1, <1>2
-----------------------------------------------------------------------------
(* InvalidateWindows                                                        *)

LEMMA InvalidatedFields ==
  ASSUME NEW w, NEW r, RecordOK(w, r), r.visible = r.update, NEW overlay
  PROVE  LET v == Invalidated(r, w, overlay)
         IN  /\ Fields(v)
             /\ v.top = r.top /\ v.clip = r.clip
             /\ v.hilited = WrittenBack(r.hilited)
             /\ v.structure = StructureAt(w, r.top) /\ v.content = ContentAt(w, r.top)
             /\ v.visible = ContentAt(w, r.top) \ overlay
             /\ v.update = v.visible
<1> DEFINE content == ContentAt(w, r.top)
           visible == content \ overlay
           update == StillToUpdate(r.update, visible \ r.visible) \cap visible
<1>1. PICK v : v = Invalidated(r, w, overlay)
  OBVIOUS
<1>2. v = [r EXCEPT !.content = content, !.structure = StructureAt(w, r.top),
                    !.visible = visible, !.update = update, !.hilited = WrittenBack(@)]
  BY <1>1 DEF Invalidated
<1>3. update = visible
  BY DEF StillToUpdate
<1> HIDE DEF content, visible, update
<1>4. v = [top |-> r.top, hilited |-> WrittenBack(r.hilited), structure |-> StructureAt(w, r.top),
           content |-> content, visible |-> visible, clip |-> r.clip, update |-> update]
  BY <1>2 DEF RecordOK, Fields
<1> QED
  BY <1>1, <1>3, <1>4 DEF Fields, content, visible

LEMMA InvalidatedRecord ==
  ASSUME NEW w \in Windows, NEW r, RecordOK(w, r), r.visible = r.update, NEW overlay
  PROVE  RecordOK(w, Invalidated(r, w, overlay))
<1>1. PICK v : v = Invalidated(r, w, overlay)
  OBVIOUS
<1>2. r.top \in Tops /\ r.hilited \in {0, 1, 255} /\ r.clip \subseteq RowsOf(w)
  BY DEF RecordOK
<1>3. v.hilited \in {0, 1, 255}
  BY <1>1, <1>2, InvalidatedFields, HilitedByte
<1>4. v.structure \subseteq RowsOf(w) /\ v.content \subseteq RowsOf(w)
  BY <1>1, <1>2, InvalidatedFields, WhereWindowsAre
<1>5. v.visible \subseteq RowsOf(w) /\ v.update \subseteq RowsOf(w)
  BY <1>1, <1>2, InvalidatedFields, WhereWindowsAre
<1> QED
  BY <1>1, <1>2, <1>3, <1>4, <1>5, InvalidatedFields DEF RecordOK

(* the rows over a window                                                   *)
LEMMA OverlayRows ==
  ASSUME NEW d, Typed(d), NEW i \in Places(d)
  PROVE  \A y : y \in Overlay(d, i) <=> y = 0 \/ \E j \in 1..i-1 : WillHave(d, j, y)
<1>1. \A y : y \in MenuBar <=> y = 0
  BY DEF MenuBar
<1>2. ASSUME NEW y
      PROVE  y \in UNION {StructureAt(w, d.record[w].top) : w \in {d.window_list[j] : j \in 1..i-1}}
               <=> \E j \in 1..i-1 : WillHave(d, j, y)
  BY DEF WillHave, RecordAt
<1> DEFINE U == UNION {StructureAt(w, d.record[w].top) : w \in {d.window_list[j] : j \in 1..i-1}}
<1>3. Overlay(d, i) = MenuBar \cup U
  BY Zenon DEF Overlay
<1>4. \A y : y \in U <=> \E j \in 1..i-1 : WillHave(d, j, y)
  BY <1>2, Zenon
<1> HIDE DEF U
<1> QED
  BY <1>1, <1>3, <1>4

(* what it does to each part of the state                                   *)
Refreshed(d, e) ==
  /\ IsState(e)
  /\ e.window_list = d.window_list
  /\ e.updates = d.updates \o d.window_list /\ e.activates = d.activates
  /\ e.record = [w \in Windows |-> e.record[w]]
  /\ \A i \in Places(d) :
       RecordAt(e, i) = Invalidated(RecordAt(d, i), d.window_list[i], Overlay(d, i))
  /\ \A w \in Windows : ~Contains(d.window_list, w) => e.record[w] = d.record[w]
  /\ e.screen = [y \in Rows |-> e.screen[y]]
  /\ \A y \in Rows :
       /\ (y = 0 \/ \A i \in Places(d) : ~WillHave(d, i, y)) => e.screen[y] = d.screen[y]
       /\ \A i \in Places(d) :
            WillHave(d, i, y) /\ (\A j \in 1..i-1 : ~WillHave(d, j, y))
              => e.screen[y] = Erased(d.window_list[i])
  /\ e.inverted \subseteq d.inverted

LEMMA InvalidateFields ==
  ASSUME NEW d, Typed(d), \A w \in Windows : d.record[w].visible = d.record[w].update
  PROVE  Refreshed(d, InvalidateWindows(d))
<1> DEFINE list == d.window_list
           FrameOf(i) == StructureAt(list[i], d.record[list[i]].top) \ Overlay(d, i)
           Framed(y) == {i \in DOMAIN list : y \in FrameOf(i)}
           record == [w \in Windows |->
                       IF Contains(list, w)
                       THEN LET i == CHOOSE i \in DOMAIN list : list[i] = w
                            IN Invalidated(d.record[w], w, Overlay(d, i))
                       ELSE d.record[w]]
           screen == [y \in Rows |->
                       IF Framed(y) = {} THEN d.screen[y]
                       ELSE Erased(list[CHOOSE i \in Framed(y) : \A j \in Framed(y) : j <= i])]
           inverted == {y \in d.inverted : Framed(y) = {}}
           updates == d.updates \o list
<1>1. PICK e : e = InvalidateWindows(d)
  OBVIOUS
<1>2. e = [d EXCEPT !.record = record, !.screen = screen, !.inverted = inverted,
                    !.updates = updates]
  BY <1>1, Zenon DEF InvalidateWindows
<1>3. \A i \in Places(d) : \A y : i \in Framed(y) <=> /\ WillHave(d, i, y) /\ y # 0
                                                     /\ \A j \in 1..i-1 : ~WillHave(d, j, y)
  <2>1. DOMAIN list = Places(d)
    BY PlacesAreListed
  <2> QED
    BY <2>1, OverlayRows, Zenon DEF WillHave, RecordAt
<1>4. \A y : Framed(y) \subseteq Places(d)
  BY PlacesAreListed
<1> HIDE DEF record, screen, inverted, updates, Framed
<1>5. e = [window_list |-> d.window_list, record |-> record, updates |-> updates,
           activates |-> d.activates, screen |-> screen, inverted |-> inverted]
  BY <1>2 DEF Typed, IsState
<1>6. ASSUME NEW i \in Places(d)
      PROVE  record[list[i]] = Invalidated(RecordAt(d, i), list[i], Overlay(d, i))
  <2>1. list[i] \in Windows /\ Contains(list, list[i])
    BY PlacesAreListed, Zenon
  <2>2. (CHOOSE k \in DOMAIN list : list[k] = list[i]) = i
    BY PlacesAreListed, Zenon
  <2> QED
    BY <2>1, <2>2, Zenon DEF record, RecordAt
<1>7. \A w \in Windows : ~Contains(list, w) => record[w] = d.record[w]
  BY Zenon DEF record
<1>8. ASSUME NEW y \in Rows, y = 0 \/ \A i \in Places(d) : ~WillHave(d, i, y)
      PROVE  screen[y] = d.screen[y]
  <2>1. Framed(y) = {}
    BY <1>3, <1>4, <1>8
  <2> QED
    BY <2>1, Zenon DEF screen
<1>9. ASSUME NEW y \in Rows, NEW i \in Places(d), WillHave(d, i, y),
             \A j \in 1..i-1 : ~WillHave(d, j, y)
      PROVE  screen[y] = Erased(list[i])
  <2>1. y # 0
    <3>1. list[i] \in Windows /\ RecordAt(d, i).top \in Tops
      BY PlacesAreListed DEF RecordOK
    <3> QED
      BY <1>9, <3>1, WhereWindowsAre DEF WillHave
  <2>2. i \in Framed(y)
    BY <1>3, <1>9, <2>1
  <2>3. ASSUME NEW k \in Framed(y)
        PROVE  k = i
    <3>1. k \in Places(d) /\ WillHave(d, k, y) /\ \A j \in 1..k-1 : ~WillHave(d, j, y)
      BY <1>3, <1>4
    <3>2. k \in Nat /\ i \in Nat /\ k >= 1 /\ i >= 1
      BY <3>1, PlacesAreListed DEF Places
    <3>3. ~(k < i) /\ ~(i < k)
      BY <1>9, <3>1, <3>2
    <3> QED
      BY <3>2, <3>3
  <2>4. Framed(y) = {i}
    BY <2>2, <2>3
  <2>5. i <= i
    BY PlacesAreListed DEF Places
  <2>6. (CHOOSE k \in Framed(y) : \A j \in Framed(y) : j <= k) = i
    BY <2>4, <2>5
  <2> QED
    BY <2>4, <2>6, Zenon DEF screen
<1>10. /\ record = [w \in Windows |-> record[w]] /\ screen = [y \in Rows |-> screen[y]]
       /\ inverted \subseteq d.inverted
  BY DEF record, screen, inverted
<1> HIDE DEF list
<1>11. /\ e.window_list = d.window_list /\ e.record = record /\ e.updates = updates
       /\ e.activates = d.activates /\ e.screen = screen /\ e.inverted = inverted
  BY <1>5
<1>12. IsState(e)
  BY <1>5, <1>11 DEF IsState
<1>13. \A i : RecordAt(e, i) = record[list[i]]
  BY <1>11 DEF RecordAt, list
<1>14. \A i \in Places(d) :
         RecordAt(e, i) = Invalidated(RecordAt(d, i), d.window_list[i], Overlay(d, i))
  BY <1>6, <1>13 DEF list
<1>15. \A w \in Windows : ~Contains(d.window_list, w) => e.record[w] = d.record[w]
  BY <1>7, <1>11 DEF list
<1>16. \A y \in Rows :
         /\ (y = 0 \/ \A i \in Places(d) : ~WillHave(d, i, y)) => e.screen[y] = d.screen[y]
         /\ \A i \in Places(d) :
              WillHave(d, i, y) /\ (\A j \in 1..i-1 : ~WillHave(d, j, y))
                => e.screen[y] = Erased(d.window_list[i])
  BY <1>8, <1>9, <1>11, Zenon DEF list
<1>17. e.updates = d.updates \o d.window_list
  BY <1>11 DEF updates, list
<1> QED
  BY <1>1, <1>10, <1>11, <1>12, <1>14, <1>15, <1>16, <1>17, Zenon DEF Refreshed

(* Whatever was done to the list and to where windows are, invalidating     *)
(* them brings everything in order.                                         *)
LEMMA InvalidateOrders ==
  ASSUME NEW d, Ready(d), NEW busy
  PROVE  StateOK(InvalidateWindows(d), busy)
<1>1. PICK e : e = InvalidateWindows(d)
  OBVIOUS
<1>2. /\ Typed(d) /\ Background(d) /\ ActiveOK(d)
      /\ \A w \in Windows : d.record[w].visible = d.record[w].update
  BY DEF Ready
<1>0. Refreshed(d, e)
  BY <1>1, <1>2, InvalidateFields, Zenon
<1>3. /\ IsState(e) /\ e.window_list = d.window_list
      /\ e.updates = d.updates \o d.window_list /\ e.activates = d.activates
      /\ e.record = [w \in Windows |-> e.record[w]]
      /\ \A i \in Places(d) :
           RecordAt(e, i) = Invalidated(RecordAt(d, i), d.window_list[i], Overlay(d, i))
      /\ \A w \in Windows : ~Contains(d.window_list, w) => e.record[w] = d.record[w]
      /\ e.screen = [y \in Rows |-> e.screen[y]]
      /\ e.inverted \subseteq d.inverted
  BY <1>0, Zenon DEF Refreshed
<1>4. \A y \in Rows :
        /\ (y = 0 \/ \A i \in Places(d) : ~WillHave(d, i, y)) => e.screen[y] = d.screen[y]
        /\ \A i \in Places(d) :
             WillHave(d, i, y) /\ (\A j \in 1..i-1 : ~WillHave(d, j, y))
               => e.screen[y] = Erased(d.window_list[i])
  BY <1>0, Zenon DEF Refreshed
<1>5. Places(e) = Places(d)
  BY <1>3 DEF Places
<1>6. ASSUME NEW i \in Places(d)
      PROVE  /\ RecordOK(d.window_list[i], RecordAt(e, i))
             /\ RecordAt(e, i).top = RecordAt(d, i).top
             /\ RecordAt(e, i).hilited = WrittenBack(RecordAt(d, i).hilited)
             /\ RecordAt(e, i).structure = StructureAt(d.window_list[i], RecordAt(d, i).top)
             /\ RecordAt(e, i).content = ContentAt(d.window_list[i], RecordAt(d, i).top)
             /\ RecordAt(e, i).visible = RecordAt(e, i).content \ Overlay(d, i)
             /\ RecordAt(e, i).update = RecordAt(e, i).visible
  <2>1. PICK w \in Windows : w = d.window_list[i]
    BY <1>2, PlacesAreListed
  <2>2. RecordOK(w, RecordAt(d, i)) /\ RecordAt(d, i).visible = RecordAt(d, i).update
    BY <1>2, <2>1, PlacesAreListed DEF RecordAt
  <2>3. RecordAt(e, i) = Invalidated(RecordAt(d, i), w, Overlay(d, i))
    BY <1>3, <2>1
  <2> QED
    BY <2>1, <2>2, <2>3, InvalidatedFields, InvalidatedRecord
<1>7. \A i \in Places(d) : \A y : Has(e, i, y) <=> WillHave(d, i, y)
  BY <1>6 DEF Has, WillHave
<1>8. \A i \in Places(d) : \A y : First(e, i, y) <=> WillHave(d, i, y) /\ \A j \in 1..i-1 : ~WillHave(d, j, y)
  <2>1. \A i \in Places(d) : \A j \in 1..i-1 : j \in Places(d)
    BY <1>2, PlacesAreListed DEF Places
  <2> QED
    BY <1>5, <1>7, <2>1, Zenon DEF First
<1>9. \A i \in Places(d) : d.window_list[i] \in Windows /\ RecordAt(d, i).top \in Tops
  BY <1>2, PlacesAreListed DEF RecordOK
<1>10. ASSUME NEW w \in Windows
       PROVE  /\ RecordOK(w, e.record[w]) /\ e.record[w].hilited \in {0, 1}
              /\ Placed(w, e.record[w]) /\ e.record[w].visible = e.record[w].update
  <2>1. CASE Contains(d.window_list, w)
    <3>1. PICK i \in Places(d) : d.window_list[i] = w
      BY <1>2, <2>1, PlacesAreListed
    <3>2. RecordAt(e, i) = e.record[w]
      BY <1>3, <3>1 DEF RecordAt
    <3>3. RecordOK(w, RecordAt(d, i))
      BY <1>2, <3>1, PlacesAreListed
    <3>4. WrittenBack(RecordAt(d, i).hilited) \in {0, 1}
      BY <3>3, HilitedByte DEF RecordOK
    <3> QED
      BY <1>6, <3>1, <3>2, <3>4 DEF Placed
  <2>2. CASE ~Contains(d.window_list, w)
    <3>1. e.record[w] = d.record[w]
      BY <1>3, <2>2
    <3> QED
      BY <2>2, <3>1 DEF Ready, Typed
  <2> QED
    BY <2>1, <2>2
<1>11. e.screen \in [Rows -> Row]
  <2>1. ASSUME NEW y \in Rows
        PROVE  e.screen[y] \in Row
    <3>1. d.screen[y] \in Row
      BY <1>2 DEF Typed
    <3>2. \A i \in Places(d) : Erased(d.window_list[i]) \in Row
      BY <1>9 DEF Erased, Row
    <3>3. CASE \A i \in Places(d) : ~WillHave(d, i, y)
      BY <1>4, <3>1, <3>3
    <3>4. CASE \E i \in Places(d) : WillHave(d, i, y)
      <4>1. PICK i \in Places(d) : WillHave(d, i, y) /\ \A j \in 1..i-1 : ~WillHave(d, j, y)
        BY <1>2, <3>4, FrontmostExists
      <4> QED
        BY <1>4, <3>2, <4>1
    <3> QED
      BY <3>3, <3>4
  <2> QED
    BY <1>3, <2>1
<1>12. Typed(e)
  <2>1. e.updates \in Seq(Windows) /\ d.activates \in Seq(Windows \cup {NULL})
    BY <1>2, <1>3 DEF Typed, ListOK
  <2>2. e.inverted \subseteq Rows
    BY <1>2, <1>3 DEF Typed
  <2>3. ListOK(e.window_list)
    BY <1>2, <1>3 DEF Typed
  <2> QED
    BY <1>3, <1>10, <1>11, <2>1, <2>2, <2>3 DEF Typed
<1>13. RegionsOK(e)
  <2>1. ASSUME NEW i \in Places(d), NEW y \in RecordAt(e, i).content
        PROVE  y \in RecordAt(e, i).visible <=> First(e, i, y)
    <3>1. WillHave(d, i, y) /\ y # 0
      BY <1>6, <1>9, WhereWindowsAre DEF WillHave
    <3>2. y \in Overlay(d, i) <=> \E j \in 1..i-1 : WillHave(d, j, y)
      BY <1>2, <3>1, OverlayRows
    <3> QED
      BY <1>6, <1>8, <3>1, <3>2
  <2> QED
    BY <1>5, <1>10, <2>1 DEF RegionsOK
<1>14. ScreenOK(e)
  <2> SUFFICES ASSUME NEW y \in Rows, ~ByDialog(e, y)
               PROVE  IF y = 0 THEN e.screen[y] = MenuBarRow
                      ELSE /\ Uncovered(e, y) => e.screen[y] = DesktopRow
                           /\ \A i \in Places(e) : First(e, i, y) => e.screen[y].of = e.window_list[i]
    BY DEF ScreenOK
  <2>1. CASE y = 0
    <3>1. e.screen[y] = d.screen[y]
      BY <1>4, <2>1
    <3> QED
      BY <1>2, <2>1, <3>1 DEF Background, ByDialog
  <2>2. ASSUME y # 0, Uncovered(e, y)
        PROVE  e.screen[y] = DesktopRow
    <3>1. \A i \in Places(d) : ~WillHave(d, i, y)
      BY <1>5, <1>7, <2>2 DEF Uncovered
    <3>2. e.screen[y] = d.screen[y]
      BY <1>4, <3>1
    <3> QED
      BY <1>2, <2>2, <3>1, <3>2 DEF Background, ByDialog
  <2>3. ASSUME y # 0, NEW i \in Places(e), First(e, i, y)
        PROVE  e.screen[y].of = e.window_list[i]
    <3>1. e.screen[y] = Erased(d.window_list[i])
      BY <1>4, <1>5, <1>8, <2>3
    <3> QED
      BY <1>3, <3>1 DEF Erased
  <2> QED
    BY <2>1, <2>2, <2>3
<1>15. DrawnOK(e, busy)
  <2>1. ASSUME NEW i \in Places(d)
        PROVE  Contains(e.updates, d.window_list[i])
    BY <1>2, <1>3, ConcatContains DEF Typed, ListOK, Places
  <2> QED
    BY <1>3, <1>5, <2>1 DEF DrawnOK
<1>16. ActiveOK(e)
  <2>1. \A i \in Places(d) : WrittenBack(RecordAt(e, i).hilited) = WrittenBack(RecordAt(d, i).hilited)
    <3> SUFFICES ASSUME NEW i \in Places(d)
                 PROVE  WrittenBack(RecordAt(e, i).hilited) = WrittenBack(RecordAt(d, i).hilited)
      OBVIOUS
    <3>1. RecordAt(d, i).hilited \in {0, 1, 255}
      BY <1>2, PlacesAreListed DEF RecordOK
    <3> QED
      BY <1>6, <3>1, HilitedByte
  <2> QED
    BY <1>2, <1>3, <1>5, <2>1, Zenon DEF ActiveOK
<1> QED
  BY <1>1, <1>10, <1>12, <1>13, <1>14, <1>15, <1>16 DEF StateOK
-----------------------------------------------------------------------------
(* The list of windows                                                      *)

LEMMA WithoutPlaces ==
  ASSUME NEW list, ListOK(list), NEW p \in 1..Len(list)
  PROVE  /\ Without(list, list[p]) \in Seq(Windows)
         /\ Len(Without(list, list[p])) = Len(list) - 1
         /\ \A i \in 1 .. Len(list) - 1 :
              Without(list, list[p])[i] = IF i < p THEN list[i] ELSE list[i + 1]
<1>1. list \in Seq(Windows) /\ Len(list) \in Nat /\ p \in Nat /\ DOMAIN list = 1..Len(list)
  BY DEF ListOK
<1>2. (CHOOSE i \in DOMAIN list : list[i] = list[p]) = p
  BY <1>1, Zenon DEF ListOK
<1>3. Without(list, list[p]) = SubSeq(list, 1, p - 1) \o SubSeq(list, p + 1, Len(list))
  BY <1>2, Zenon DEF Without, RemoveAt
<1>4. PICK s, t : s = SubSeq(list, 1, p - 1) /\ t = SubSeq(list, p + 1, Len(list))
  OBVIOUS
<1>5. /\ s \in Seq(Windows) /\ Len(s) = p - 1
      /\ \A i \in 1 .. p - 1 : s[i] = list[i]
  BY <1>1, <1>4
<1>6. /\ t \in Seq(Windows) /\ Len(t) = Len(list) - p
      /\ \A i \in 1 .. Len(list) - p : t[i] = list[p + i]
  <2>1. p + 1 \in Int /\ Len(list) \in Int /\ Len(list) - (p + 1) + 1 = Len(list) - p
          /\ \A i \in p + 1 .. Len(list) : list[i] \in Windows
    BY <1>1
  <2>2. /\ t \in Seq(Windows)
        /\ Len(t) = IF p + 1 <= Len(list) THEN Len(list) - p ELSE 0
        /\ \A i \in 1 .. Len(list) - p : t[i] = list[(p + 1) + i - 1]
    BY <1>4, <2>1, SubSeqProperties
  <2>3. \A i \in 1 .. Len(list) - p : (p + 1) + i - 1 = p + i
    BY <1>1
  <2>4. Len(t) = Len(list) - p
    <3>1. p <= Len(list) /\ p \in Nat /\ Len(list) \in Nat
      BY <1>1
    <3>2. CASE p + 1 <= Len(list)
      BY <2>2, <3>2, Zenon
    <3>3. CASE ~(p + 1 <= Len(list))
      <4>1. Len(list) - p = 0
        BY <3>1, <3>3
      <4> QED
        BY <2>2, <3>3, <4>1, Zenon
    <3> QED
      BY <3>2, <3>3
  <2> QED
    BY <2>2, <2>3, <2>4
<1>7. s \o t \in Seq(Windows) /\ Len(s \o t) = Len(list) - 1
  <2>1. s \o t \in Seq(Windows) /\ Len(s \o t) = Len(s) + Len(t)
    BY <1>5, <1>6, ConcatProperties
  <2>2. (p - 1) + (Len(list) - p) = Len(list) - 1
    BY <1>1
  <2> QED
    BY <1>5, <1>6, <2>1, <2>2
<1>8. ASSUME NEW i \in 1 .. Len(list) - 1
      PROVE  (s \o t)[i] = IF i < p THEN list[i] ELSE list[i + 1]
  <2>1. CASE i < p
    BY <1>1, <1>5, <1>6, <2>1
  <2>2. CASE ~(i < p)
    <3>1. (s \o t)[i] = t[i - (p - 1)]
      BY <1>1, <1>5, <1>6, <2>2
    <3>2. i - (p - 1) \in 1 .. Len(list) - p /\ p + (i - (p - 1)) = i + 1
      BY <1>1, <2>2
    <3> QED
      BY <1>6, <2>2, <3>1, <3>2
  <2> QED
    BY <2>1, <2>2
<1> QED
  BY <1>3, <1>4, <1>7, <1>8

LEMMA WithoutIsAList ==
  ASSUME NEW list, ListOK(list), NEW p \in 1..Len(list)
  PROVE  /\ ListOK(Without(list, list[p]))
         /\ \A w : Contains(Without(list, list[p]), w) <=> Contains(list, w) /\ w # list[p]
<1>1. PICK without : without = Without(list, list[p])
  OBVIOUS
<1>2. /\ list \in Seq(Windows) /\ Len(list) \in Nat /\ p \in Nat /\ p >= 1 /\ p <= Len(list)
      /\ \A i, j \in 1..Len(list) : list[i] = list[j] => i = j
  BY DEF ListOK
<1>3. /\ without \in Seq(Windows) /\ Len(without) = Len(list) - 1
      /\ \A i \in 1 .. Len(list) - 1 : without[i] = IF i < p THEN list[i] ELSE list[i + 1]
  BY <1>1, WithoutPlaces
<1>4. ASSUME NEW i \in 1 .. Len(list) - 1, NEW j \in 1 .. Len(list) - 1, without[i] = without[j]
      PROVE  i = j
  <2>1. i \in Nat /\ j \in Nat /\ i \in 1..Len(list) /\ i + 1 \in 1..Len(list)
          /\ j \in 1..Len(list) /\ j + 1 \in 1..Len(list)
    BY <1>2
  <2>2. CASE i < p /\ j < p
    BY <1>2, <1>3, <1>4, <2>1, <2>2
  <2>3. CASE i < p /\ ~(j < p)
    <3>1. list[i] = list[j + 1]
      BY <1>3, <1>4, <2>3
    <3>2. i = j + 1
      BY <1>2, <2>1, <3>1
    <3> QED
      BY <1>2, <2>1, <2>3, <3>2
  <2>4. CASE ~(i < p) /\ j < p
    <3>1. list[i + 1] = list[j]
      BY <1>3, <1>4, <2>4
    <3>2. i + 1 = j
      BY <1>2, <2>1, <3>1
    <3> QED
      BY <1>2, <2>1, <2>4, <3>2
  <2>5. CASE ~(i < p) /\ ~(j < p)
    <3>1. list[i + 1] = list[j + 1]
      BY <1>3, <1>4, <2>5
    <3>2. i + 1 = j + 1
      BY <1>2, <2>1, <3>1
    <3> QED
      BY <2>1, <3>2
  <2> QED
    BY <2>2, <2>3, <2>4, <2>5
<1>5. ListOK(without)
  BY <1>3, <1>4 DEF ListOK
<1>6. ASSUME NEW i \in 1 .. Len(list) - 1
      PROVE  \E k \in 1..Len(list) : k # p /\ without[i] = list[k]
  <2>1. CASE i < p
    BY <1>2, <1>3, <2>1
  <2>2. CASE ~(i < p)
    <3>1. i + 1 \in 1..Len(list) /\ i + 1 # p
      BY <1>2, <2>2
    <3> QED
      BY <1>3, <2>2, <3>1
  <2> QED
    BY <2>1, <2>2
<1>7. ASSUME NEW k \in 1..Len(list), k # p
      PROVE  \E i \in 1 .. Len(list) - 1 : without[i] = list[k]
  <2>1. CASE k < p
    <3>1. k \in 1 .. Len(list) - 1
      BY <1>2, <2>1
    <3> QED
      BY <1>3, <2>1, <3>1
  <2>2. CASE k > p
    <3>1. k - 1 \in 1 .. Len(list) - 1 /\ ~(k - 1 < p) /\ (k - 1) + 1 = k
      BY <1>2, <2>2
    <3> QED
      BY <1>3, <3>1
  <2> QED
    BY <1>2, <1>7, <2>1, <2>2
<1>8. \A w : Contains(without, w) <=> \E i \in 1 .. Len(list) - 1 : without[i] = w
  BY <1>3 DEF Contains
<1>9. \A w : Contains(list, w) <=> \E i \in 1..Len(list) : list[i] = w
  BY <1>2 DEF Contains
<1>10. \A w : Contains(without, w) <=> Contains(list, w) /\ w # list[p]
  <2> SUFFICES ASSUME NEW w
               PROVE  Contains(without, w) <=> Contains(list, w) /\ w # list[p]
    OBVIOUS
  <2>1. ASSUME Contains(without, w)
        PROVE  Contains(list, w) /\ w # list[p]
    <3>1. PICK i \in 1 .. Len(list) - 1 : without[i] = w
      BY <1>8, <2>1
    <3>2. PICK k \in 1..Len(list) : k # p /\ without[i] = list[k]
      BY <1>6
    <3> QED
      BY <1>2, <1>9, <3>1, <3>2
  <2>2. ASSUME Contains(list, w), w # list[p]
        PROVE  Contains(without, w)
    <3>1. PICK k \in 1..Len(list) : list[k] = w
      BY <1>9, <2>2
    <3> QED
      BY <1>7, <1>8, <2>2, <3>1
  <2> QED
    BY <2>1, <2>2
<1> QED
  BY <1>1, <1>5, <1>10

LEMMA AppendIsAList ==
  ASSUME NEW list, ListOK(list), NEW w \in Windows, ~Contains(list, w)
  PROVE  /\ ListOK(Append(list, w))
         /\ Len(Append(list, w)) = Len(list) + 1
         /\ \A i \in 1..Len(list) : Append(list, w)[i] = list[i]
         /\ Append(list, w)[Len(list) + 1] = w
         /\ \A v : Contains(Append(list, w), v) <=> Contains(list, v) \/ v = w
<1>1. PICK longer : longer = Append(list, w)
  OBVIOUS
<1>2. /\ list \in Seq(Windows) /\ Len(list) \in Nat
      /\ \A i, j \in 1..Len(list) : list[i] = list[j] => i = j
  BY DEF ListOK
<1>3. /\ longer \in Seq(Windows) /\ Len(longer) = Len(list) + 1
      /\ \A i \in 1..Len(list) : longer[i] = list[i]
      /\ longer[Len(list) + 1] = w
  BY <1>1, <1>2, AppendProperties
<1>4. \A i \in 1..Len(list) : list[i] # w
  BY DEF Contains
<1>5. ASSUME NEW i \in 1 .. Len(list) + 1
      PROVE  i \in 1..Len(list) \/ i = Len(list) + 1
  BY <1>2
<1>6. ASSUME NEW i \in 1 .. Len(list) + 1, NEW j \in 1 .. Len(list) + 1, longer[i] = longer[j]
      PROVE  i = j
  BY <1>2, <1>3, <1>4, <1>5, <1>6
<1>7. ListOK(longer)
  BY <1>3, <1>6 DEF ListOK
<1>8. \A v : Contains(longer, v) <=> \E i \in 1 .. Len(list) + 1 : longer[i] = v
  BY <1>3 DEF Contains
<1>9. \A v : Contains(list, v) <=> \E i \in 1..Len(list) : list[i] = v
  BY DEF Contains
<1>10. 1..Len(list) \subseteq 1 .. Len(list) + 1 /\ Len(list) + 1 \in 1 .. Len(list) + 1
  BY <1>2
<1>11. \A v : Contains(longer, v) <=> Contains(list, v) \/ v = w
  BY <1>3, <1>5, <1>8, <1>9, <1>10
<1> QED
  BY <1>1, <1>3, <1>7, <1>11

LEMMA InFrontIsAList ==
  ASSUME NEW list, ListOK(list), NEW w \in Windows, ~Contains(list, w)
  PROVE  /\ ListOK(<<w>> \o list)
         /\ Len(<<w>> \o list) = Len(list) + 1
         /\ (<<w>> \o list)[1] = w
         /\ \A i \in 1..Len(list) : (<<w>> \o list)[i + 1] = list[i]
         /\ \A v : Contains(<<w>> \o list, v) <=> Contains(list, v) \/ v = w
<1>1. PICK longer : longer = <<w>> \o list
  OBVIOUS
<1>2. /\ list \in Seq(Windows) /\ Len(list) \in Nat
      /\ \A i, j \in 1..Len(list) : list[i] = list[j] => i = j
  BY DEF ListOK
<1>3. <<w>> \in Seq(Windows) /\ Len(<<w>>) = 1 /\ <<w>>[1] = w
  OBVIOUS
<1>4. /\ longer \in Seq(Windows) /\ Len(longer) = 1 + Len(list)
      /\ \A i \in 1 .. 1 + Len(list) : longer[i] = IF i <= 1 THEN <<w>>[i] ELSE list[i - 1]
  BY <1>1, <1>2, <1>3, ConcatProperties
<1>5. Len(longer) = Len(list) + 1 /\ longer[1] = w
  BY <1>2, <1>3, <1>4
<1>6. ASSUME NEW i \in 1..Len(list)
      PROVE  longer[i + 1] = list[i]
  <2>1. i + 1 \in 1 .. 1 + Len(list) /\ ~(i + 1 <= 1) /\ (i + 1) - 1 = i
    BY <1>2
  <2> QED
    BY <1>4, <2>1
<1>7. \A i \in 1..Len(list) : list[i] # w
  BY DEF Contains
<1>8. ASSUME NEW i \in 1 .. Len(list) + 1
      PROVE  i = 1 \/ (i - 1 \in 1..Len(list) /\ (i - 1) + 1 = i)
  BY <1>2
<1>9. ASSUME NEW i \in 1 .. Len(list) + 1, NEW j \in 1 .. Len(list) + 1, longer[i] = longer[j]
      PROVE  i = j
  <2>1. CASE i = 1 \/ j = 1
    <3>1. ASSUME NEW k \in 1 .. Len(list) + 1, k # 1
          PROVE  longer[k] # w
      <4>1. k - 1 \in 1..Len(list) /\ (k - 1) + 1 = k
        BY <1>8, <3>1
      <4>2. longer[(k - 1) + 1] = list[k - 1] /\ list[k - 1] # w
        BY <1>6, <1>7, <4>1
      <4> QED
        BY <4>1, <4>2
    <3> QED
      BY <1>5, <1>9, <2>1, <3>1
  <2>2. CASE i # 1 /\ j # 1
    <3>1. longer[i] = list[i - 1] /\ longer[j] = list[j - 1]
      BY <1>6, <1>8, <2>2
    <3>2. i - 1 = j - 1
      BY <1>2, <1>8, <1>9, <2>2, <3>1
    <3> QED
      BY <1>8, <2>2, <3>2
  <2> QED
    BY <2>1, <2>2
<1>10. ListOK(longer)
  BY <1>4, <1>5, <1>9 DEF ListOK
<1>11. \A v : Contains(longer, v) <=> \E i \in 1 .. Len(list) + 1 : longer[i] = v
  BY <1>5 DEF Contains
<1>12. \A v : Contains(list, v) <=> \E i \in 1..Len(list) : list[i] = v
  BY DEF Contains
<1>13. 1 \in 1 .. Len(list) + 1 /\ \A i \in 1..Len(list) : i + 1 \in 1 .. Len(list) + 1
  BY <1>2
<1>14. ASSUME NEW v
       PROVE  Contains(longer, v) <=> Contains(list, v) \/ v = w
  <2>1. ASSUME Contains(longer, v)
        PROVE  Contains(list, v) \/ v = w
    <3>1. PICK i \in 1 .. Len(list) + 1 : longer[i] = v
      BY <1>11, <2>1
    <3>2. CASE i = 1
      BY <1>5, <3>1, <3>2
    <3>3. CASE i # 1
      <4>1. longer[(i - 1) + 1] = list[i - 1] /\ i - 1 \in 1..Len(list) /\ (i - 1) + 1 = i
        BY <1>6, <1>8, <3>3
      <4> QED
        BY <1>12, <3>1, <4>1
    <3> QED
      BY <3>2, <3>3
  <2>2. ASSUME Contains(list, v) \/ v = w
        PROVE  Contains(longer, v)
    BY <1>5, <1>6, <1>11, <1>12, <1>13, <2>2
  <2> QED
    BY <2>1, <2>2
<1> QED
  BY <1>1, <1>5, <1>6, <1>10, <1>14

LEMMA MoveToFrontIsAList ==
  ASSUME NEW list, ListOK(list), NEW p \in 1..Len(list)
  PROVE  /\ ListOK(MoveToFront(list, list[p]))
         /\ Len(MoveToFront(list, list[p])) = Len(list)
         /\ MoveToFront(list, list[p])[1] = list[p]
         /\ \A v : Contains(MoveToFront(list, list[p]), v) <=> Contains(list, v)
<1>1. list[p] \in Windows /\ Contains(list, list[p]) /\ Len(list) \in Nat
  BY DEF ListOK, Contains
<1>2. PICK without : without = Without(list, list[p])
  OBVIOUS
<1>3. ListOK(without) /\ \A w : Contains(without, w) <=> Contains(list, w) /\ w # list[p]
  BY <1>2, WithoutIsAList, Zenon
<1>4. Len(without) = Len(list) - 1
  BY <1>2, WithoutPlaces
<1>5. PICK w : w = list[p]
  OBVIOUS
<1>6. /\ ListOK(<<w>> \o without) /\ Len(<<w>> \o without) = Len(without) + 1
      /\ (<<w>> \o without)[1] = w
      /\ \A v : Contains(<<w>> \o without, v) <=> Contains(without, v) \/ v = w
  BY <1>1, <1>3, <1>5, InFrontIsAList, Zenon
<1>7. MoveToFront(list, w) = <<w>> \o without
  BY <1>2, <1>5, Zenon DEF MoveToFront
<1> QED
  <2>1. Len(<<w>> \o without) = Len(list)
    BY <1>1, <1>4, <1>6
  <2>2. \A v : Contains(<<w>> \o without, v) <=> Contains(list, v)
    BY <1>1, <1>3, <1>5, <1>6
  <2> QED
    BY <1>5, <1>6, <1>7, <2>1, <2>2
-----------------------------------------------------------------------------
(* Ready to be invalidated                                                  *)

LEMMA NoneWillHave ==
  ASSUME NEW d, Typed(d), NEW y
  PROVE  (\A i \in Places(d) : ~WillHave(d, i, y))
           <=> \A w \in Windows : Contains(d.window_list, w) => y \notin StructureAt(w, d.record[w].top)
<1>1. \A i \in Places(d) : d.window_list[i] \in Windows
  BY PlacesAreListed
<1>2. \A w : Contains(d.window_list, w) <=> \E i \in Places(d) : d.window_list[i] = w
  BY PlacesAreListed
<1> QED
  BY <1>1, <1>2, Zenon DEF WillHave, RecordAt

LEMMA StateIsReady ==
  ASSUME NEW d, NEW busy, StateOK(d, busy)
  PROVE  Ready(d)
<1>1. Typed(d) /\ RegionsOK(d) /\ ScreenOK(d) /\ ActiveOK(d)
        /\ \A w \in Windows : d.record[w].hilited \in {0, 1}
  BY DEF StateOK
<1>2. \A w \in Windows : Placed(w, d.record[w]) /\ d.record[w].visible = d.record[w].update
  BY <1>1 DEF RegionsOK
<1>3. ASSUME NEW y, \A i \in Places(d) : ~WillHave(d, i, y)
      PROVE  Uncovered(d, y)
  <2>1. \A i \in Places(d) : Placed(d.window_list[i], RecordAt(d, i))
    BY <1>1, <1>2, PlacesAreListed DEF RecordAt
  <2> QED
    BY <1>3, <2>1 DEF Uncovered, Has, Placed, WillHave
<1>4. Background(d)
  BY <1>1, <1>3 DEF ScreenOK, Background
<1> QED
  BY <1>1, <1>2, <1>4 DEF Ready

(* every window stays where it is                                           *)
LEMMA BackgroundStays ==
  ASSUME NEW d, NEW e, Typed(d), Typed(e), Background(d), e.screen = d.screen,
         \A w \in Windows : Contains(d.window_list, w) =>
            Contains(e.window_list, w) /\ e.record[w].top = d.record[w].top
  PROVE  Background(e)
<1>1. \A y : (\A i \in Places(e) : ~WillHave(e, i, y)) => \A i \in Places(d) : ~WillHave(d, i, y)
  BY NoneWillHave, Zenon
<1> QED
  BY <1>1, Zenon DEF Background, ByDialog

(* every window but one, over which the desktop is repainted                *)
LEMMA BackgroundRepainted ==
  ASSUME NEW d, NEW e, NEW busy, StateOK(d, busy), Typed(e), NEW w \in Windows,
         e.screen = [y \in Rows |-> IF y \in Desktop \cap d.record[w].structure
                                    THEN DesktopRow ELSE d.screen[y]],
         \A v \in Windows : v # w /\ Contains(d.window_list, v) =>
            Contains(e.window_list, v) /\ e.record[v].top = d.record[v].top
  PROVE  Background(e)
<1>1. Typed(d) /\ RegionsOK(d) /\ ScreenOK(d)
  BY DEF StateOK
<1> SUFFICES ASSUME NEW y \in Rows, ~ByDialog(e, y)
             PROVE  IF y = 0 THEN e.screen[y] = MenuBarRow
                    ELSE (\A i \in Places(e) : ~WillHave(e, i, y)) => e.screen[y] = DesktopRow
  BY DEF Background
<1>2. CASE y \in Desktop \cap d.record[w].structure
  <2>1. y # 0
    BY <1>2, RowsAreNumbers
  <2> QED
    BY <1>2, <2>1
<1>3. CASE y \notin Desktop \cap d.record[w].structure
  <2>1. e.screen[y] = d.screen[y] /\ ~ByDialog(d, y)
    BY <1>3 DEF ByDialog
  <2>2. CASE y = 0
    BY <1>1, <2>1, <2>2 DEF ScreenOK
  <2>3. ASSUME y # 0, \A i \in Places(e) : ~WillHave(e, i, y)
        PROVE  e.screen[y] = DesktopRow
    <3>1. y \in Desktop
      BY <2>3, RowsAreNumbers
    <3>2. \A v \in Windows : Contains(e.window_list, v) => y \notin StructureAt(v, e.record[v].top)
      BY <2>3, NoneWillHave, Zenon
    <3>3. ASSUME NEW i \in Places(d)
          PROVE  ~Has(d, i, y)
      <4>1. PICK v \in Windows : v = d.window_list[i]
        BY <1>1, PlacesAreListed
      <4>2. Contains(d.window_list, v) /\ RecordAt(d, i) = d.record[v] /\ Placed(v, d.record[v])
        BY <1>1, <4>1, PlacesAreListed DEF RecordAt, RegionsOK
      <4>3. CASE v = w
        BY <1>3, <3>1, <4>2, <4>3 DEF Has
      <4>4. CASE v # w
        BY <3>2, <4>2, <4>4 DEF Has, Placed
      <4> QED
        BY <4>3, <4>4
    <3>4. d.screen[y] = DesktopRow
      BY <1>1, <2>1, <2>3, <3>3 DEF ScreenOK, Uncovered
    <3> QED
      BY <2>1, <3>4
  <2> QED
    BY <2>2, <2>3
<1> QED
  BY <1>2, <1>3

LEMMA QueuedFields ==
  ASSUME NEW d, IsState(d), NEW w
  PROVE  /\ IsState(QueueWindowUpdate(d, w)) /\ IsState(QueueWindowActivate(d, w))
         /\ QueueWindowUpdate(d, w).window_list = d.window_list
         /\ QueueWindowUpdate(d, w).record = d.record
         /\ QueueWindowUpdate(d, w).updates = Append(d.updates, w)
         /\ QueueWindowUpdate(d, w).activates = d.activates
         /\ QueueWindowUpdate(d, w).screen = d.screen
         /\ QueueWindowUpdate(d, w).inverted = d.inverted
         /\ QueueWindowActivate(d, w).window_list = d.window_list
         /\ QueueWindowActivate(d, w).record = d.record
         /\ QueueWindowActivate(d, w).updates = d.updates
         /\ QueueWindowActivate(d, w).activates = Append(d.activates, w)
         /\ QueueWindowActivate(d, w).screen = d.screen
         /\ QueueWindowActivate(d, w).inverted = d.inverted
<1>1. QueueWindowUpdate(d, w) =
        [window_list |-> d.window_list, record |-> d.record, updates |-> Append(d.updates, w),
         activates |-> d.activates, screen |-> d.screen, inverted |-> d.inverted]
  BY DEF QueueWindowUpdate, IsState
<1>2. QueueWindowActivate(d, w) =
        [window_list |-> d.window_list, record |-> d.record, updates |-> d.updates,
         activates |-> Append(d.activates, w), screen |-> d.screen, inverted |-> d.inverted]
  BY DEF QueueWindowActivate, IsState
<1>3. IsState(QueueWindowUpdate(d, w))
  BY <1>1 DEF IsState
<1>4. IsState(QueueWindowActivate(d, w))
  BY <1>2 DEF IsState
<1> QED
  BY <1>1, <1>2, <1>3, <1>4

(* more events                                                              *)
LEMMA QueuedIsReady ==
  ASSUME NEW d, NEW e, Ready(d), IsState(e), e.window_list = d.window_list,
         e.record = d.record, e.screen = d.screen, e.inverted \subseteq Rows,
         e.updates \in Seq(Windows), e.activates \in Seq(Windows \cup {NULL})
  PROVE  Ready(e)
<1>1. Typed(e)
  BY Zenon DEF Ready, Typed
<1>2. Background(e) /\ ActiveOK(e)
  BY Zenon DEF Ready, Background, ByDialog, ActiveOK, WillHave, RecordAt, Places
<1> QED
  BY <1>1, <1>2, Zenon DEF Ready

LEMMA QueuedIsOK ==
  ASSUME NEW d, NEW e, NEW busy, StateOK(d, busy), IsState(e), e.window_list = d.window_list,
         e.record = d.record, e.screen = d.screen, e.inverted \subseteq Rows,
         e.updates \in Seq(Windows), e.activates \in Seq(Windows \cup {NULL}),
         \A w \in Windows : Contains(d.updates, w) => Contains(e.updates, w) \/ w \in Dialogs
                              \/ ~Contains(d.window_list, w) \/ w \in busy
  PROVE  StateOK(e, busy)
<1>1. Typed(e)
  BY Zenon DEF StateOK, Typed
<1>2. Places(e) = Places(d) /\ \A i : RecordAt(e, i) = RecordAt(d, i)
  BY DEF Places, RecordAt
<1>3. \A y : Uncovered(e, y) <=> Uncovered(d, y)
  BY <1>2, Zenon DEF Uncovered, Has
<1>4. \A i, y : First(e, i, y) <=> First(d, i, y)
  BY <1>2, Zenon DEF First, Has
<1>5. \A y : ByDialog(e, y) <=> ByDialog(d, y)
  BY Zenon DEF ByDialog
<1>6. RegionsOK(e)
  BY <1>2, <1>4, Zenon DEF StateOK, RegionsOK
<1>7. ScreenOK(e)
  <2> SUFFICES ASSUME NEW y \in Rows, ~ByDialog(e, y)
               PROVE  IF y = 0 THEN e.screen[y] = MenuBarRow
                      ELSE /\ Uncovered(e, y) => e.screen[y] = DesktopRow
                           /\ \A i \in Places(e) : First(e, i, y) => e.screen[y].of = e.window_list[i]
    BY DEF ScreenOK
  <2>1. IF y = 0 THEN d.screen[y] = MenuBarRow
        ELSE /\ Uncovered(d, y) => d.screen[y] = DesktopRow
             /\ \A i \in Places(d) : First(d, i, y) => d.screen[y].of = d.window_list[i]
    BY <1>5, Zenon DEF StateOK, ScreenOK
  <2> QED
    BY <1>2, <1>3, <1>4, <2>1
<1>8. ActiveOK(e)
  BY <1>2, Zenon DEF StateOK, ActiveOK
<1>9. DrawnOK(e, busy)
  <2> SUFFICES ASSUME NEW i \in Places(e), e.window_list[i] \notin Dialogs,
                      e.window_list[i] \notin busy, ~Contains(e.updates, e.window_list[i]),
                      NEW y \in Rows, y \in RecordAt(e, i).content, First(e, i, y)
               PROVE  e.screen[y] = Drawn(e.window_list[i]) \/ ByDialog(e, y)
    BY Zenon DEF DrawnOK
  <2>1. Typed(d)
    BY DEF StateOK
  <2>2. i \in Places(d) /\ d.window_list[i] \in Windows /\ Contains(d.window_list, d.window_list[i])
    BY <1>2, <2>1, PlacesAreListed
  <2>3. ~Contains(d.updates, d.window_list[i])
    BY <2>2
  <2> QED
    BY <1>2, <1>4, <1>5, <2>2, <2>3, Zenon DEF StateOK, DrawnOK
<1> QED
  BY <1>1, <1>6, <1>7, <1>8, <1>9, Zenon DEF StateOK
-----------------------------------------------------------------------------
(* SelectWindow                                                             *)

Selected(d, e, w, busy) ==
  /\ StateOK(e, busy)
  /\ e.inverted \subseteq d.inverted
  /\ e.window_list # <<>> /\ e.window_list[1] = w
  /\ Contains(e.activates, w)

LEMMA LastIsContained ==
  ASSUME NEW S, NEW s \in Seq(S), NEW v \in S
  PROVE  /\ Append(s, v) \in Seq(S) /\ Contains(Append(s, v), v)
         /\ \A u : Contains(s, u) => Contains(Append(s, v), u)
<1>1. Append(s, v) \in Seq(S) /\ Len(Append(s, v)) = Len(s) + 1 /\ Append(s, v)[Len(s) + 1] = v
        /\ \A i \in 1..Len(s) : Append(s, v)[i] = s[i]
  BY AppendProperties
<1>2. Len(s) \in Nat /\ Len(s) + 1 \in 1 .. Len(s) + 1 /\ 1..Len(s) \subseteq 1 .. Len(s) + 1
  OBVIOUS
<1> QED
  BY <1>1, <1>2 DEF Contains

LEMMA SelectOrders ==
  ASSUME NEW d, Ready(d), \A w \in Windows : d.record[w].hilited \in {0, 1},
         NEW target \in Windows, Contains(d.window_list, target), NEW busy
  PROVE  Selected(d, SelectWindow(d, target), target, busy)
<1> DEFINE M == MoveToFront(d.window_list, target)
           R == [w \in Windows |-> IF Contains(d.window_list, w)
                                   THEN [d.record[w] EXCEPT !.hilited = Hilited(d, target, w)]
                                   ELSE d.record[w]]
<1>1. Typed(d) /\ Background(d) /\ IsState(d) /\ ListOK(d.window_list)
  BY DEF Ready, Typed
<1>2. PICK h : h = [d EXCEPT !.record = R, !.window_list = M]
  OBVIOUS
<1>3. d.record[target].hilited # 255
  BY DEF Ready
<1>4. SelectWindow(d, target) = InvalidateWindows(QueueWindowActivate(h, target))
  BY <1>2, <1>3, Zenon DEF SelectWindow
<1>5. /\ ListOK(M) /\ Len(M) = Len(d.window_list) /\ M[1] = target
      /\ \A v : Contains(M, v) <=> Contains(d.window_list, v)
      /\ M # <<>>
  <2>1. PICK p \in 1..Len(d.window_list) : d.window_list[p] = target
    BY DEF Contains
  <2>2. /\ ListOK(M) /\ Len(M) = Len(d.window_list) /\ M[1] = target
        /\ \A v : Contains(M, v) <=> Contains(d.window_list, v)
    BY <1>1, <2>1, MoveToFrontIsAList
  <2>3. M # <<>>
    <3>1. Len(d.window_list) \in Nat
      BY <1>1, PlacesAreListed
    <3>2. Len(M) # 0
      BY <2>1, <2>2, <3>1
    <3> QED
      BY <3>2
  <2> QED
    BY <2>2, <2>3
<1>6. ASSUME NEW w \in Windows, Contains(d.window_list, w)
      PROVE  /\ RecordOK(w, R[w]) /\ R[w].top = d.record[w].top
             /\ R[w].hilited = Hilited(d, target, w)
             /\ R[w].visible = R[w].update
  <2>1. R[w] = [d.record[w] EXCEPT !.hilited = Hilited(d, target, w)]
    BY <1>6
  <2>2. Hilited(d, target, w) \in {0, 1, 255}
    BY DEF Hilited
  <2>3. RecordOK(w, d.record[w]) /\ d.record[w].visible = d.record[w].update
    BY <1>1 DEF Typed, Ready
  <2> HIDE DEF R
  <2>4. R[w] = [top |-> d.record[w].top, hilited |-> Hilited(d, target, w),
                structure |-> d.record[w].structure, content |-> d.record[w].content,
                visible |-> d.record[w].visible, clip |-> d.record[w].clip,
                update |-> d.record[w].update]
    BY <2>1, <2>3 DEF RecordOK, Fields
  <2> QED
    BY <2>2, <2>3, <2>4 DEF RecordOK, Fields
<1>7. ASSUME NEW w \in Windows, ~Contains(d.window_list, w)
      PROVE  R[w] = d.record[w]
  BY <1>7
<1>8. R = [w \in Windows |-> R[w]]
  OBVIOUS
<1> HIDE DEF R, M
<1>9. h = [window_list |-> M, record |-> R, updates |-> d.updates, activates |-> d.activates,
           screen |-> d.screen, inverted |-> d.inverted]
  BY <1>1, <1>2 DEF IsState
<1>10. /\ IsState(h) /\ h.window_list = M /\ h.record = R /\ h.updates = d.updates
       /\ h.activates = d.activates /\ h.screen = d.screen /\ h.inverted = d.inverted
  BY <1>9 DEF IsState
<1>11. ASSUME NEW w \in Windows
       PROVE  RecordOK(w, h.record[w]) /\ h.record[w].visible = h.record[w].update
  <2>1. CASE Contains(d.window_list, w)
    BY <1>6, <1>10, <2>1
  <2>2. CASE ~Contains(d.window_list, w)
    BY <1>1, <1>7, <1>10, <2>2 DEF Typed, Ready
  <2> QED
    BY <2>1, <2>2
<1>12. Typed(h)
  BY <1>1, <1>5, <1>8, <1>10, <1>11 DEF Typed
<1>13. Background(h)
  BY <1>1, <1>5, <1>6, <1>10, <1>12, BackgroundStays
<1>14. ASSUME NEW i \in Places(h)
       PROVE  /\ i # 1 => WrittenBack(RecordAt(h, i).hilited) = 0
              /\ i \in Nat /\ i >= 1
  <2>1. h.window_list[i] \in Windows /\ Contains(d.window_list, h.window_list[i])
    BY <1>5, <1>10, <1>12, PlacesAreListed
  <2>2. RecordAt(h, i).hilited = Hilited(d, target, h.window_list[i])
    BY <1>6, <1>10, <2>1 DEF RecordAt
  <2>3. i \in Nat /\ i >= 1 /\ 1 \in Places(h)
    BY <1>12, PlacesAreListed DEF Places
  <2>4. i # 1 => h.window_list[i] # target
    BY <1>5, <1>10, <1>12, <2>3, PlacesAreListed
  <2> QED
    BY <2>2, <2>3, <2>4, HilitedByte DEF Hilited
<1>15. ActiveOK(h)
  <2> SUFFICES ASSUME NEW i \in Places(h), NEW j \in Places(h),
                      WrittenBack(RecordAt(h, j).hilited) = 1, i # j
               PROVE  WrittenBack(RecordAt(h, i).hilited) = 0 /\ ~(i < j)
    BY DEF ActiveOK
  <2>1. j = 1
    BY <1>14
  <2>2. WrittenBack(RecordAt(h, i).hilited) = 0
    BY <1>14, <2>1
  <2>3. i \in Nat /\ i >= 1
    BY <1>14
  <2>4. ~(i < j)
    BY <2>1, <2>3
  <2> QED
    BY <2>2, <2>4
<1>16. Ready(h)
  <2>1. ASSUME NEW w \in Windows, ~Contains(h.window_list, w)
        PROVE  Placed(w, h.record[w]) /\ h.record[w].hilited \in {0, 1}
    <3>1. ~Contains(d.window_list, w) /\ h.record[w] = d.record[w]
      BY <1>5, <1>7, <1>10, <2>1
    <3> QED
      BY <3>1 DEF Ready
  <2> QED
    BY <1>11, <1>12, <1>13, <1>15, <2>1 DEF Ready
<1>17. PICK q : q = QueueWindowActivate(h, target)
  OBVIOUS
<1>18. /\ IsState(q) /\ q.window_list = h.window_list /\ q.record = h.record
       /\ q.updates = h.updates /\ q.activates = Append(h.activates, target)
       /\ q.screen = h.screen /\ q.inverted = h.inverted
  BY <1>10, <1>17, QueuedFields
<1>19. q.activates \in Seq(Windows \cup {NULL}) /\ Contains(q.activates, target)
  BY <1>12, <1>18, LastIsContained DEF Typed
<1>20. Ready(q)
  <2>1. q.inverted \subseteq Rows /\ q.updates \in Seq(Windows)
    BY <1>12, <1>18 DEF Typed
  <2> QED
    BY <1>16, <1>18, <1>19, <2>1, QueuedIsReady
<1>21. StateOK(InvalidateWindows(q), busy) /\ Refreshed(q, InvalidateWindows(q))
  <2>1. Typed(q) /\ \A w \in Windows : q.record[w].visible = q.record[w].update
    BY <1>20 DEF Ready
  <2> QED
    BY <1>20, <2>1, InvalidateOrders, InvalidateFields, Zenon
<1>22. PICK e : e = SelectWindow(d, target)
  OBVIOUS
<1>23. StateOK(e, busy) /\ Refreshed(q, e)
  BY <1>4, <1>17, <1>21, <1>22
<1>24. e.window_list = M /\ e.activates = q.activates /\ e.inverted \subseteq d.inverted
  BY <1>10, <1>18, <1>23, Zenon DEF Refreshed
<1>25. Selected(d, e, target, busy)
  BY <1>5, <1>19, <1>23, <1>24, Zenon DEF Selected
<1> QED
  BY <1>22, <1>25
-----------------------------------------------------------------------------
(* The traps                                                                *)

(* the application is told of a window that comes to the front              *)
FrontToldOf(d, e) ==
  \/ e.window_list = <<>>
  \/ d.window_list # <<>> /\ e.window_list[1] = d.window_list[1]
  \/ Contains(e.activates, e.window_list[1])
  \/ e.window_list[1] \in Dialogs /\ ~Contains(d.window_list, e.window_list[1])
Leads(d, e, busy) ==
  StateOK(e, busy) /\ e.inverted \subseteq d.inverted /\ FrontToldOf(d, e)

LEMMA SelectLeads ==
  ASSUME NEW d, NEW busy, StateOK(d, busy), NEW w \in Windows, Contains(d.window_list, w)
  PROVE  Leads(d, SelectWindow(d, w), busy)
<1>1. Ready(d) /\ \A v \in Windows : d.record[v].hilited \in {0, 1}
  BY StateIsReady DEF StateOK
<1>2. Selected(d, SelectWindow(d, w), w, busy)
  BY <1>1, SelectOrders
<1> QED
  BY <1>2 DEF Selected, Leads, FrontToldOf

LEMMA NewRecord ==
  ASSUME NEW w \in Windows, NEW top \in Tops
  PROVE  /\ RecordOK(w, NewWindowRecord(w, top)) /\ NewWindowRecord(w, top).hilited = 0
         /\ NewWindowRecord(w, top).visible = NewWindowRecord(w, top).update
         /\ NewWindowRecord(w, top).structure = {} /\ NewWindowRecord(w, top).content = {}
         /\ NewWindowRecord(w, top).top = top
<1>1. InLocalCoordinates(w) \subseteq RowsOf(w)
  BY WhereWindowsAre
<1>2. PICK r : r = NewWindowRecord(w, top)
  OBVIOUS
<1>3. PICK rows : rows = InLocalCoordinates(w)
  OBVIOUS
<1>4. r = [top |-> top, hilited |-> 0, structure |-> {}, content |-> {},
           visible |-> rows, clip |-> rows, update |-> rows]
  BY <1>2, <1>3 DEF NewWindowRecord
<1> QED
  BY <1>1, <1>2, <1>3, <1>4 DEF RecordOK, Fields

LEMMA NewWindowLeads ==
  ASSUME NEW d, NEW busy, StateOK(d, busy), NEW w \in Windows, ~Contains(d.window_list, w),
         NEW top \in Tops, NEW is_visible \in BOOLEAN, NEW behind
  PROVE  Leads(d, QueueWindowUpdate(QueueWindowActivate(
                    NewWindow(d, w, top, is_visible, behind), w), w), busy)
<1> DEFINE R == [d.record EXCEPT ![w] = NewWindowRecord(w, top)]
           list == Append(d.window_list, w)
<1>1. Typed(d) /\ IsState(d) /\ ListOK(d.window_list) /\ ActiveOK(d) /\ Ready(d)
        /\ d.record = [v \in Windows |-> d.record[v]]
  BY StateIsReady DEF StateOK, Typed
<1>2. PICK added : added = [d EXCEPT !.record[w] = NewWindowRecord(w, top),
                                     !.window_list = Append(@, w)]
  OBVIOUS
<1>3. R = [v \in Windows |-> IF v = w THEN NewWindowRecord(w, top) ELSE d.record[v]]
  BY <1>1
<1> HIDE DEF R
<1>4. added = [window_list |-> list, record |-> R, updates |-> d.updates,
               activates |-> d.activates, screen |-> d.screen, inverted |-> d.inverted]
  BY <1>1, <1>2 DEF IsState, R
<1>5. /\ IsState(added) /\ added.window_list = list /\ added.record = R
      /\ added.updates = d.updates /\ added.activates = d.activates
      /\ added.screen = d.screen /\ added.inverted = d.inverted
  <2> HIDE DEF list
  <2> QED
    BY <1>4 DEF IsState
<1>6. /\ ListOK(list) /\ Len(list) = Len(d.window_list) + 1
      /\ \A i \in 1..Len(d.window_list) : list[i] = d.window_list[i]
      /\ list[Len(d.window_list) + 1] = w
      /\ \A v : Contains(list, v) <=> Contains(d.window_list, v) \/ v = w
      /\ Len(d.window_list) \in Nat
  BY <1>1, AppendIsAList, PlacesAreListed
<1> HIDE DEF list
<1>7. R = [v \in Windows |-> R[v]] /\ R[w] = NewWindowRecord(w, top)
        /\ \A v \in Windows : v # w => R[v] = d.record[v]
  BY <1>3
<1>8. ASSUME NEW v \in Windows
      PROVE  RecordOK(v, R[v]) /\ R[v].visible = R[v].update /\ R[v].hilited \in {0, 1}
  <2>1. CASE v = w
    BY <1>7, <2>1, NewRecord
  <2>2. CASE v # w
    BY <1>1, <1>7, <2>2 DEF Typed, StateOK, RegionsOK
  <2> QED
    BY <2>1, <2>2
<1>9. Typed(added)
  BY <1>1, <1>5, <1>6, <1>7, <1>8 DEF Typed
<1>10. Background(added)
  <2>1. \A v \in Windows : Contains(d.window_list, v) =>
           Contains(added.window_list, v) /\ added.record[v].top = d.record[v].top
    BY <1>5, <1>6, <1>7
  <2>2. Background(d)
    BY <1>1 DEF Ready
  <2> QED
    BY <1>1, <1>5, <1>9, <2>1, <2>2, BackgroundStays
<1>11. ASSUME NEW i \in Places(added)
       PROVE  \/ i \in Places(d) /\ RecordAt(added, i) = RecordAt(d, i)
                   /\ added.window_list[i] = d.window_list[i]
              \/ i = Len(d.window_list) + 1 /\ RecordAt(added, i).hilited = 0
  <2>1. i \in Places(d) \/ i = Len(d.window_list) + 1
    BY <1>5, <1>6 DEF Places
  <2>2. CASE i \in Places(d)
    <3>1. d.window_list[i] \in Windows /\ d.window_list[i] # w
      BY <1>1, <2>2, PlacesAreListed
    <3>2. added.window_list[i] = d.window_list[i]
      BY <1>5, <1>6, <2>2 DEF Places
    <3> QED
      BY <1>5, <1>7, <2>2, <3>1, <3>2 DEF RecordAt
  <2>3. CASE i = Len(d.window_list) + 1
    BY <1>5, <1>6, <1>7, <2>3, NewRecord DEF RecordAt
  <2> QED
    BY <2>1, <2>2, <2>3
<1>12. ActiveOK(added)
  <2> SUFFICES ASSUME NEW i \in Places(added), NEW j \in Places(added),
                      WrittenBack(RecordAt(added, j).hilited) = 1, i # j
               PROVE  /\ WrittenBack(RecordAt(added, i).hilited) = 0
                      /\ i < j => added.window_list[i] \in Dialogs
    BY DEF ActiveOK
  <2>1. j \in Places(d) /\ RecordAt(added, j) = RecordAt(d, j)
    BY <1>11, HilitedByte
  <2>2. CASE i \in Places(d) /\ RecordAt(added, i) = RecordAt(d, i)
               /\ added.window_list[i] = d.window_list[i]
    BY <1>1, <2>1, <2>2, Zenon DEF ActiveOK
  <2>3. CASE i = Len(d.window_list) + 1 /\ RecordAt(added, i).hilited = 0
    <3>1. ~(i < j)
      BY <1>6, <2>1, <2>3 DEF Places
    <3> QED
      BY <2>3, <3>1, HilitedByte
  <2> QED
    BY <1>11, <2>2, <2>3
<1>13. Ready(added)
  <2>1. ASSUME NEW v \in Windows, ~Contains(added.window_list, v)
        PROVE  Placed(v, added.record[v]) /\ added.record[v].hilited \in {0, 1}
    <3>1. ~Contains(d.window_list, v) /\ v # w /\ added.record[v] = d.record[v]
      BY <1>5, <1>6, <1>7, <2>1
    <3> QED
      BY <1>1, <3>1 DEF Ready
  <2> QED
    BY <1>5, <1>8, <1>9, <1>10, <1>12, <2>1 DEF Ready
<1>14. PICK shown : shown = IF is_visible THEN ShowWindow(added, w) ELSE added
  OBVIOUS
<1>15. /\ IsState(shown) /\ shown.window_list = list /\ shown.record = R
       /\ shown.activates = d.activates /\ shown.screen = d.screen /\ shown.inverted = d.inverted
       /\ shown.updates \in Seq(Windows)
  <2>1. d.updates \in Seq(Windows)
    BY <1>1 DEF Typed
  <2>2. Append(d.updates, w) \in Seq(Windows)
    BY <2>1, LastIsContained
  <2>3. CASE is_visible
    <3>1. shown = QueueWindowUpdate(added, w)
      BY <1>14, <2>3 DEF ShowWindow
    <3>2. /\ IsState(shown) /\ shown.window_list = added.window_list
          /\ shown.record = added.record /\ shown.activates = added.activates
          /\ shown.screen = added.screen /\ shown.inverted = added.inverted
          /\ shown.updates = Append(added.updates, w)
      BY <1>5, <3>1, QueuedFields
    <3> QED
      BY <1>5, <2>2, <3>2
  <2>4. CASE ~is_visible
    BY <1>5, <1>14, <2>1, <2>4
  <2> QED
    BY <2>3, <2>4
<1>16. Ready(shown)
  <2>1. shown.inverted \subseteq Rows /\ shown.activates \in Seq(Windows \cup {NULL})
    BY <1>1, <1>15 DEF Typed
  <2> QED
    BY <1>5, <1>13, <1>15, <2>1, QueuedIsReady
<1>17. PICK e : e = NewWindow(d, w, top, is_visible, behind)
  OBVIOUS
<1>18. /\ StateOK(e, busy) /\ e.inverted \subseteq d.inverted /\ e.window_list # <<>>
       /\ e.window_list[1] = w \/ (d.window_list # <<>> /\ e.window_list[1] = d.window_list[1])
  <2>1. CASE behind # NULL \/ Len(list) = 1
    <3>1. e = SelectWindow(shown, w)
      BY <1>2, <1>5, <1>14, <1>17, <2>1, Zenon DEF NewWindow
    <3>2. \A v \in Windows : shown.record[v].hilited \in {0, 1}
      BY <1>8, <1>15
    <3>3. Contains(shown.window_list, w)
      BY <1>6, <1>15
    <3>4. Selected(shown, e, w, busy)
      BY <1>16, <3>1, <3>2, <3>3, SelectOrders
    <3> QED
      BY <1>15, <3>4 DEF Selected
  <2>2. CASE ~(behind # NULL \/ Len(list) = 1)
    <3>1. e = InvalidateWindows(shown)
      BY <1>2, <1>5, <1>14, <1>17, <2>2, Zenon DEF NewWindow
    <3>2. StateOK(e, busy)
      BY <1>16, <3>1, InvalidateOrders
    <3>3. Refreshed(shown, e)
      <4>1. Typed(shown) /\ \A v \in Windows : shown.record[v].visible = shown.record[v].update
        BY <1>16 DEF Ready
      <4> QED
        BY <3>1, <4>1, InvalidateFields
    <3>4. e.window_list = list /\ e.inverted \subseteq d.inverted
      BY <1>15, <3>3, Zenon DEF Refreshed
    <3>5. Len(d.window_list) # 0 /\ Len(list) # 0 /\ 1 \in 1..Len(d.window_list)
      BY <1>6, <2>2
    <3>6. d.window_list # <<>> /\ list # <<>>
      BY <3>5
    <3> QED
      BY <1>6, <3>2, <3>4, <3>5, <3>6
  <2> QED
    BY <2>1, <2>2
<1>19. PICK q : q = QueueWindowActivate(e, w)
  OBVIOUS
<1>20. PICK r : r = QueueWindowUpdate(q, w)
  OBVIOUS
<1>21. Typed(e) /\ IsState(e)
  BY <1>18 DEF StateOK, Typed
<1>22. /\ IsState(r) /\ r.window_list = e.window_list /\ r.record = e.record
       /\ r.updates = Append(e.updates, w) /\ r.activates = Append(e.activates, w)
       /\ r.screen = e.screen /\ r.inverted = e.inverted
  BY <1>19, <1>20, <1>21, QueuedFields
<1>23. /\ r.updates \in Seq(Windows) /\ r.activates \in Seq(Windows \cup {NULL})
       /\ \A v : Contains(e.updates, v) => Contains(r.updates, v)
       /\ Contains(r.activates, w) /\ r.inverted \subseteq Rows
  BY <1>21, <1>22, LastIsContained DEF Typed
<1>24. StateOK(r, busy)
  BY <1>18, <1>22, <1>23, QueuedIsOK
<1>25. Leads(d, r, busy)
  BY <1>18, <1>22, <1>23, <1>24 DEF Leads, FrontToldOf
<1> QED
  BY <1>17, <1>19, <1>20, <1>25

LEMMA PaintFields ==
  ASSUME NEW d, IsState(d), NEW rows, NEW shows
  PROVE  /\ IsState(Paint(d, rows, shows))
         /\ Paint(d, rows, shows).window_list = d.window_list
         /\ Paint(d, rows, shows).record = d.record
         /\ Paint(d, rows, shows).updates = d.updates
         /\ Paint(d, rows, shows).activates = d.activates
         /\ Paint(d, rows, shows).screen =
              [y \in Rows |-> IF y \in rows THEN shows ELSE d.screen[y]]
         /\ Paint(d, rows, shows).inverted = d.inverted \ rows
<1> DEFINE screen == [y \in Rows |-> IF y \in rows THEN shows ELSE d.screen[y]]
<1>1. PICK e : e = Paint(d, rows, shows)
  OBVIOUS
<1>2. e = [d EXCEPT !.screen = screen, !.inverted = @ \ rows]
  BY <1>1, Zenon DEF Paint
<1> HIDE DEF screen
<1>3. e = [window_list |-> d.window_list, record |-> d.record, updates |-> d.updates,
           activates |-> d.activates, screen |-> screen, inverted |-> d.inverted \ rows]
  BY <1>2 DEF IsState
<1>4. IsState(e)
  BY <1>3 DEF IsState
<1>5. /\ e.window_list = d.window_list /\ e.record = d.record /\ e.updates = d.updates
      /\ e.activates = d.activates /\ e.screen = screen /\ e.inverted = d.inverted \ rows
  BY <1>3
<1> QED
  BY <1>1, <1>4, <1>5, Zenon DEF screen

LEMMA XorFields ==
  ASSUME NEW d, IsState(d), NEW rows
  PROVE  /\ IsState(Xor(d, rows))
         /\ Xor(d, rows).window_list = d.window_list /\ Xor(d, rows).record = d.record
         /\ Xor(d, rows).updates = d.updates /\ Xor(d, rows).activates = d.activates
         /\ Xor(d, rows).screen = d.screen
         /\ Xor(d, rows).inverted = (d.inverted \ rows) \cup (rows \ d.inverted)
<1> DEFINE inverted == (d.inverted \ rows) \cup (rows \ d.inverted)
<1>1. PICK e : e = Xor(d, rows)
  OBVIOUS
<1>2. e = [d EXCEPT !.inverted = inverted]
  BY <1>1, Zenon DEF Xor
<1> HIDE DEF inverted
<1>3. e = [window_list |-> d.window_list, record |-> d.record, updates |-> d.updates,
           activates |-> d.activates, screen |-> d.screen, inverted |-> inverted]
  BY <1>2 DEF IsState
<1>4. IsState(e)
  BY <1>3 DEF IsState
<1> QED
  BY <1>1, <1>3, <1>4 DEF inverted

(* the screen once the desktop is repainted                                 *)
LEMMA RepaintedScreen ==
  ASSUME NEW d, Typed(d), NEW rows
  PROVE  \A y \in Rows : [z \in Rows |-> IF z \in rows THEN DesktopRow ELSE d.screen[z]][y] \in Row
<1>1. DesktopRow \in Row
  BY DEF DesktopRow, Row
<1> QED
  BY <1>1 DEF Typed

LEMMA DisposeLeads ==
  ASSUME NEW d, NEW busy, StateOK(d, busy), NEW w \in Windows, Contains(d.window_list, w),
         NEW front \in Windows \cup {NULL},
         Without(d.window_list, w) # <<>> => front = Without(d.window_list, w)[1]
  PROVE  Leads(d, DisposeWindow(d, w, front), busy)
<1> DEFINE rows == Desktop \cap d.record[w].structure
           screen == [y \in Rows |-> IF y \in rows THEN DesktopRow ELSE d.screen[y]]
<1>1. Typed(d) /\ IsState(d) /\ ListOK(d.window_list) /\ ActiveOK(d) /\ Ready(d)
  BY StateIsReady DEF StateOK, Typed
<1>2. PICK p \in 1..Len(d.window_list) : d.window_list[p] = w
  BY DEF Contains
<1>3. PICK list : list = Without(d.window_list, w)
  OBVIOUS
<1>4. /\ ListOK(list) /\ Len(list) = Len(d.window_list) - 1 /\ Len(d.window_list) \in Nat
      /\ \A v : Contains(list, v) <=> Contains(d.window_list, v) /\ v # w
      /\ \A i \in 1 .. Len(d.window_list) - 1 :
           list[i] = IF i < p THEN d.window_list[i] ELSE d.window_list[i + 1]
  <2>1. list = Without(d.window_list, d.window_list[p])
    BY <1>2, <1>3
  <2>2. /\ ListOK(list)
        /\ \A v : Contains(list, v) <=> Contains(d.window_list, v) /\ v # d.window_list[p]
    BY <1>1, <2>1, WithoutIsAList, Zenon
  <2>3. /\ Len(list) = Len(d.window_list) - 1
        /\ \A i \in 1 .. Len(d.window_list) - 1 :
             list[i] = IF i < p THEN d.window_list[i] ELSE d.window_list[i + 1]
    BY <1>1, <2>1, WithoutPlaces, Zenon
  <2> QED
    BY <1>1, <1>2, <2>2, <2>3, PlacesAreListed
<1>5. PICK r : r = RepaintDesktopOverWindow(d, w)
  OBVIOUS
<1>6. /\ IsState(r) /\ r.window_list = d.window_list /\ r.record = d.record
      /\ r.updates = d.updates /\ r.activates = d.activates /\ r.screen = screen
      /\ r.inverted = d.inverted \ rows
  <2>1. r = Paint(d, rows, DesktopRow)
    BY <1>5, Zenon DEF RepaintDesktopOverWindow
  <2> HIDE DEF rows
  <2>2. /\ IsState(Paint(d, rows, DesktopRow))
        /\ Paint(d, rows, DesktopRow).window_list = d.window_list
        /\ Paint(d, rows, DesktopRow).record = d.record
        /\ Paint(d, rows, DesktopRow).updates = d.updates
        /\ Paint(d, rows, DesktopRow).activates = d.activates
        /\ Paint(d, rows, DesktopRow).screen = screen
        /\ Paint(d, rows, DesktopRow).inverted = d.inverted \ rows
    BY <1>1, PaintFields DEF screen
  <2> QED
    BY <2>1, <2>2
<1> HIDE DEF screen
<1>7. PICK s : s = [r EXCEPT !.window_list = Without(@, w)]
  OBVIOUS
<1>8. s = [window_list |-> list, record |-> d.record, updates |-> d.updates,
           activates |-> d.activates, screen |-> screen, inverted |-> d.inverted \ rows]
  BY <1>3, <1>6, <1>7 DEF IsState
<1>9. /\ IsState(s) /\ s.window_list = list /\ s.record = d.record
      /\ s.updates = d.updates /\ s.activates = d.activates /\ s.screen = screen
      /\ s.inverted = d.inverted \ rows
  BY <1>8 DEF IsState
<1>10. Typed(s)
  <2>1. \A y \in Rows : screen[y] \in Row
    BY <1>1, RepaintedScreen, Zenon DEF screen
  <2>2. screen = [y \in Rows |-> screen[y]]
    BY DEF screen
  <2>3. screen \in [Rows -> Row]
    BY <2>1, <2>2
  <2> QED
    BY <1>1, <1>4, <1>9, <2>3 DEF Typed
<1>11. Background(s)
  BY <1>4, <1>9, <1>10, BackgroundRepainted DEF screen
<1>12. ASSUME NEW i \in Places(s)
       PROVE  \E k \in Places(d) : /\ k = (IF i < p THEN i ELSE i + 1)
                                   /\ s.window_list[i] = d.window_list[k]
                                   /\ RecordAt(s, i) = RecordAt(d, k)
  <2>1. i \in 1 .. Len(d.window_list) - 1
    BY <1>4, <1>9 DEF Places
  <2>2. PICK k : k = IF i < p THEN i ELSE i + 1
    OBVIOUS
  <2>3. k \in Places(d)
    BY <1>4, <2>1, <2>2 DEF Places
  <2>4. s.window_list[i] = d.window_list[k]
    BY <1>4, <1>9, <2>1, <2>2
  <2> QED
    BY <1>9, <2>2, <2>3, <2>4 DEF RecordAt
<1>13. ActiveOK(s)
  <2> SUFFICES ASSUME NEW i \in Places(s), NEW j \in Places(s),
                      WrittenBack(RecordAt(s, j).hilited) = 1, i # j
               PROVE  /\ WrittenBack(RecordAt(s, i).hilited) = 0
                      /\ i < j => s.window_list[i] \in Dialogs
    BY DEF ActiveOK
  <2>1. PICK k \in Places(d) : /\ k = (IF i < p THEN i ELSE i + 1)
                               /\ s.window_list[i] = d.window_list[k]
                               /\ RecordAt(s, i) = RecordAt(d, k)
    BY <1>12
  <2>2. PICK l \in Places(d) : /\ l = (IF j < p THEN j ELSE j + 1)
                               /\ s.window_list[j] = d.window_list[l]
                               /\ RecordAt(s, j) = RecordAt(d, l)
    BY <1>12
  <2>3. i \in Nat /\ j \in Nat /\ p \in Nat
    BY <1>4, <1>10, PlacesAreListed DEF Places
  <2>4. k # l /\ (i < j => k < l)
    BY <2>1, <2>2, <2>3
  <2> QED
    BY <1>1, <2>1, <2>2, <2>4, Zenon DEF ActiveOK
<1>14. Ready(s)
  <2>1. \A v \in Windows : d.record[v].visible = d.record[v].update
    BY <1>1 DEF Ready
  <2>2. \A v \in Windows : Placed(v, d.record[v]) /\ d.record[v].hilited \in {0, 1}
    BY DEF StateOK, RegionsOK
  <2> QED
    BY <1>9, <1>10, <1>11, <1>13, <2>1, <2>2 DEF Ready
<1>15. PICK q : q = QueueWindowActivate(s, front)
  OBVIOUS
<1>16. /\ IsState(q) /\ q.window_list = list /\ q.record = s.record
       /\ q.updates = s.updates /\ q.activates = Append(s.activates, front)
       /\ q.screen = s.screen /\ q.inverted = s.inverted
  BY <1>9, <1>15, QueuedFields
<1>17. q.activates \in Seq(Windows \cup {NULL}) /\ Contains(q.activates, front)
  BY <1>10, <1>16, LastIsContained DEF Typed
<1>18. Ready(q)
  <2>1. q.inverted \subseteq Rows /\ q.updates \in Seq(Windows)
    BY <1>10, <1>16 DEF Typed
  <2> QED
    BY <1>9, <1>14, <1>16, <1>17, <2>1, QueuedIsReady
<1>19. PICK e : e = DisposeWindow(d, w, front)
  OBVIOUS
<1>20. e = InvalidateWindows(q)
  BY <1>5, <1>7, <1>15, <1>19, Zenon DEF DisposeWindow
<1>21. StateOK(e, busy) /\ Refreshed(q, e)
  <2>1. Typed(q) /\ \A v \in Windows : q.record[v].visible = q.record[v].update
    BY <1>18 DEF Ready
  <2> QED
    BY <1>18, <1>20, <2>1, InvalidateOrders, InvalidateFields, Zenon
<1>22. e.window_list = list /\ e.activates = q.activates /\ e.inverted \subseteq d.inverted
  <2>1. e.window_list = q.window_list /\ e.activates = q.activates /\ e.inverted \subseteq q.inverted
    BY <1>21, Zenon DEF Refreshed
  <2> QED
    BY <1>9, <1>16, <2>1
<1> QED
  BY <1>3, <1>17, <1>19, <1>21, <1>22, Zenon DEF Leads, FrontToldOf

LEMMA MoveLeads ==
  ASSUME NEW d, NEW busy, StateOK(d, busy), NEW w \in Windows, Contains(d.window_list, w),
         NEW top \in Tops, NEW bring_to_front \in BOOLEAN
  PROVE  /\ Leads(d, MoveWindow(d, w, top, bring_to_front), busy)
         /\ MoveWindow(d, w, top, bring_to_front).inverted
              \subseteq d.inverted \ (Desktop \cap d.record[w].structure)
<1> DEFINE rows == Desktop \cap d.record[w].structure
           screen == [y \in Rows |-> IF y \in rows THEN DesktopRow ELSE d.screen[y]]
           R == [d.record EXCEPT ![w].top = top]
<1>1. /\ Typed(d) /\ IsState(d) /\ ListOK(d.window_list) /\ ActiveOK(d) /\ Ready(d)
      /\ d.record = [v \in Windows |-> d.record[v]]
      /\ \A v \in Windows : RecordOK(v, d.record[v]) /\ d.record[v].hilited \in {0, 1}
      /\ \A v \in Windows : d.record[v].visible = d.record[v].update
  BY StateIsReady DEF StateOK, Typed, Ready
<1>2. PICK r : r = RepaintDesktopOverWindow(d, w)
  OBVIOUS
<1>3. /\ IsState(r) /\ r.window_list = d.window_list /\ r.record = d.record
      /\ r.updates = d.updates /\ r.activates = d.activates /\ r.screen = screen
      /\ r.inverted = d.inverted \ rows
  <2>1. r = Paint(d, rows, DesktopRow)
    BY <1>2, Zenon DEF RepaintDesktopOverWindow
  <2> HIDE DEF rows
  <2>2. /\ IsState(Paint(d, rows, DesktopRow))
        /\ Paint(d, rows, DesktopRow).window_list = d.window_list
        /\ Paint(d, rows, DesktopRow).record = d.record
        /\ Paint(d, rows, DesktopRow).updates = d.updates
        /\ Paint(d, rows, DesktopRow).activates = d.activates
        /\ Paint(d, rows, DesktopRow).screen = screen
        /\ Paint(d, rows, DesktopRow).inverted = d.inverted \ rows
    BY <1>1, PaintFields DEF screen
  <2> QED
    BY <2>1, <2>2
<1> HIDE DEF screen
<1>4. PICK moved : moved = [r EXCEPT !.record[w].top = top]
  OBVIOUS
<1>5. R = [v \in Windows |-> IF v = w THEN [d.record[w] EXCEPT !.top = top] ELSE d.record[v]]
  BY <1>1
<1>6. /\ R = [v \in Windows |-> R[v]] /\ R[w] = [d.record[w] EXCEPT !.top = top]
      /\ \A v \in Windows : v # w => R[v] = d.record[v]
  BY <1>5
<1> HIDE DEF R
<1>7. moved = [window_list |-> d.window_list, record |-> R, updates |-> d.updates,
               activates |-> d.activates, screen |-> screen, inverted |-> d.inverted \ rows]
  BY <1>3, <1>4 DEF IsState, R
<1>8. /\ IsState(moved) /\ moved.window_list = d.window_list /\ moved.record = R
      /\ moved.updates = d.updates /\ moved.activates = d.activates /\ moved.screen = screen
      /\ moved.inverted = d.inverted \ rows
  BY <1>7 DEF IsState
<1>9. /\ RecordOK(w, R[w]) /\ R[w].hilited = d.record[w].hilited
      /\ R[w].visible = R[w].update
  <2>1. RecordOK(w, d.record[w])
    BY <1>1
  <2>2. R[w] = [top |-> top, hilited |-> d.record[w].hilited,
                structure |-> d.record[w].structure, content |-> d.record[w].content,
                visible |-> d.record[w].visible, clip |-> d.record[w].clip,
                update |-> d.record[w].update]
    BY <1>6, <2>1 DEF RecordOK, Fields
  <2> QED
    BY <1>1, <2>1, <2>2 DEF RecordOK, Fields
<1>10. \A v \in Windows : /\ RecordOK(v, R[v]) /\ R[v].hilited = d.record[v].hilited
                          /\ R[v].visible = R[v].update
  BY <1>1, <1>6, <1>9
<1>11. Typed(moved)
  <2>1. \A y \in Rows : screen[y] \in Row
    BY <1>1, RepaintedScreen, Zenon DEF screen
  <2>2. screen = [y \in Rows |-> screen[y]]
    BY DEF screen
  <2>3. screen \in [Rows -> Row]
    BY <2>1, <2>2
  <2> QED
    BY <1>1, <1>6, <1>8, <1>10, <2>3 DEF Typed
<1>12. Background(moved)
  BY <1>6, <1>8, <1>11, BackgroundRepainted DEF screen
<1>13. Places(moved) = Places(d)
         /\ \A i \in Places(d) : RecordAt(moved, i).hilited = RecordAt(d, i).hilited
  BY <1>1, <1>8, <1>10, PlacesAreListed DEF RecordAt, Places
<1>14. ActiveOK(moved)
  BY <1>1, <1>8, <1>13, Zenon DEF ActiveOK
<1>15. Ready(moved)
  <2>1. ASSUME NEW v \in Windows, ~Contains(moved.window_list, v)
        PROVE  Placed(v, moved.record[v]) /\ moved.record[v].hilited \in {0, 1}
    <3>1. moved.record[v] = d.record[v]
      BY <1>6, <1>8, <2>1
    <3> QED
      BY <3>1 DEF StateOK, RegionsOK
  <2> QED
    BY <1>8, <1>10, <1>11, <1>12, <1>14, <2>1 DEF Ready
<1>16. PICK e : e = MoveWindow(d, w, top, bring_to_front)
  OBVIOUS
<1>17. CASE bring_to_front /\ WrittenBack(d.record[w].hilited) = 0
  <2>1. e = SelectWindow(moved, w)
    BY <1>2, <1>4, <1>16, <1>17, Zenon DEF MoveWindow
  <2>2. Selected(moved, e, w, busy)
    BY <1>1, <1>8, <1>10, <1>15, <2>1, SelectOrders
  <2> QED
    BY <1>8, <1>16, <2>2 DEF Selected, Leads, FrontToldOf
<1>18. CASE ~(bring_to_front /\ WrittenBack(d.record[w].hilited) = 0)
  <2>1. e = InvalidateWindows([moved EXCEPT !.record[w].hilited = WrittenBack(@)])
    BY <1>2, <1>4, <1>16, <1>18, Zenon DEF MoveWindow
  <2>2. [moved EXCEPT !.record[w].hilited = WrittenBack(@)] = moved
    <3>1. WrittenBack(R[w].hilited) = R[w].hilited
      BY <1>1, <1>10, HilitedByte
    <3>2. [R[w] EXCEPT !.hilited = R[w].hilited] = R[w]
      BY <1>9 DEF RecordOK, Fields
    <3>3. [R EXCEPT ![w].hilited = WrittenBack(@)] = [R EXCEPT ![w] = R[w]]
      BY <1>6, <3>1, <3>2
    <3>4. [R EXCEPT ![w] = R[w]] = R
      BY <1>6
    <3>5. [R EXCEPT ![w].hilited = WrittenBack(@)] = R
      BY <3>3, <3>4
    <3> QED
      BY <1>7, <1>8, <3>5
  <2>3. StateOK(e, busy) /\ Refreshed(moved, e)
    <3>1. Typed(moved) /\ \A v \in Windows : moved.record[v].visible = moved.record[v].update
      BY <1>15 DEF Ready
    <3> QED
      BY <1>15, <2>1, <2>2, <3>1, InvalidateOrders, InvalidateFields
  <2>4. e.window_list = d.window_list /\ e.inverted \subseteq d.inverted \ rows
    BY <1>8, <2>3, Zenon DEF Refreshed
  <2>5. d.window_list # <<>>
    BY DEF Contains
  <2> QED
    BY <1>16, <2>3, <2>4, <2>5 DEF Leads, FrontToldOf
<1> QED
  BY <1>17, <1>18

(* a window without regions in front of the others                          *)
LEMMA DialogLeads ==
  ASSUME NEW d, NEW busy, StateOK(d, busy), NEW w \in Dialogs, ~Contains(d.window_list, w),
         NEW top \in Tops, NEW is_visible \in BOOLEAN
  PROVE  Leads(d, GetNewDialog(d, w, top, is_visible), busy)
<1> DEFINE R == [d.record EXCEPT ![w] = NewWindowRecord(w, top)]
           list == <<w>> \o d.window_list
           n == Len(d.window_list)
<1>0. w \in Windows
  BY RowsAreNumbers
<1>1. Typed(d) /\ IsState(d) /\ ListOK(d.window_list)
        /\ d.record = [v \in Windows |-> d.record[v]]
        /\ RegionsOK(d) /\ ScreenOK(d) /\ DrawnOK(d, busy) /\ ActiveOK(d)
  BY DEF StateOK, Typed
<1>2. PICK created : created = [d EXCEPT !.record[w] = NewWindowRecord(w, top)]
  OBVIOUS
<1>3. R = [v \in Windows |-> IF v = w THEN NewWindowRecord(w, top) ELSE d.record[v]]
  BY <1>1
<1>4. R = [v \in Windows |-> R[v]] /\ R[w] = NewWindowRecord(w, top)
        /\ \A v \in Windows : v # w => R[v] = d.record[v]
  BY <1>0, <1>3
<1> HIDE DEF R
<1>5. created = [window_list |-> d.window_list, record |-> R, updates |-> d.updates,
                 activates |-> d.activates, screen |-> d.screen, inverted |-> d.inverted]
  BY <1>1, <1>2 DEF IsState, R
<1>6. /\ IsState(created) /\ created.window_list = d.window_list /\ created.record = R
      /\ created.updates = d.updates /\ created.activates = d.activates
      /\ created.screen = d.screen /\ created.inverted = d.inverted
  BY <1>5 DEF IsState
<1>7. PICK shown : shown = IF is_visible THEN ShowWindow(created, w) ELSE created
  OBVIOUS
<1>8. /\ IsState(shown) /\ shown.window_list = d.window_list /\ shown.record = R
      /\ shown.activates = d.activates /\ shown.screen = d.screen /\ shown.inverted = d.inverted
      /\ shown.updates \in Seq(Windows)
      /\ \A v : Contains(d.updates, v) => Contains(shown.updates, v)
  <2>1. d.updates \in Seq(Windows)
    BY <1>1 DEF Typed
  <2>2. /\ Append(d.updates, w) \in Seq(Windows)
        /\ \A v : Contains(d.updates, v) => Contains(Append(d.updates, w), v)
    BY <1>0, <2>1, LastIsContained
  <2>3. CASE is_visible
    <3>1. shown = QueueWindowUpdate(created, w)
      BY <1>7, <2>3 DEF ShowWindow
    <3>2. /\ IsState(shown) /\ shown.window_list = created.window_list
          /\ shown.record = created.record /\ shown.activates = created.activates
          /\ shown.screen = created.screen /\ shown.inverted = created.inverted
          /\ shown.updates = Append(created.updates, w)
      BY <1>6, <3>1, QueuedFields
    <3> QED
      BY <1>6, <2>2, <3>2
  <2>4. CASE ~is_visible
    BY <1>6, <1>7, <2>1, <2>4
  <2> QED
    BY <2>3, <2>4
<1>9. PICK e : e = GetNewDialog(d, w, top, is_visible)
  OBVIOUS
<1>10. e = [shown EXCEPT !.window_list = <<w>> \o @]
  BY <1>2, <1>7, <1>9, Zenon DEF GetNewDialog, AddWindowToListAndActivate
<1>11. /\ ListOK(list) /\ Len(list) = n + 1 /\ list[1] = w
       /\ \A i \in 1..n : list[i + 1] = d.window_list[i]
       /\ \A v : Contains(list, v) <=> Contains(d.window_list, v) \/ v = w
       /\ n \in Nat
  BY <1>0, <1>1, InFrontIsAList, PlacesAreListed
<1> HIDE DEF list
<1>12. e = [window_list |-> list, record |-> R, updates |-> shown.updates,
            activates |-> d.activates, screen |-> d.screen, inverted |-> d.inverted]
  BY <1>8, <1>10 DEF IsState, list
<1>13. /\ IsState(e) /\ e.window_list = list /\ e.record = R /\ e.updates = shown.updates
       /\ e.activates = d.activates /\ e.screen = d.screen /\ e.inverted = d.inverted
  BY <1>12 DEF IsState
<1>14. ASSUME NEW v \in Windows
       PROVE  /\ RecordOK(v, R[v]) /\ R[v].visible = R[v].update /\ R[v].hilited \in {0, 1}
              /\ Placed(v, R[v])
  <2>1. CASE v = w
    BY <1>4, <2>1, NewRecord DEF Placed
  <2>2. CASE v # w
    BY <1>1, <1>4, <2>2 DEF Typed, StateOK, RegionsOK
  <2> QED
    BY <2>1, <2>2
<1>15. Typed(e)
  BY <1>1, <1>4, <1>8, <1>11, <1>13, <1>14 DEF Typed
<1>16. /\ 1 \in Places(e) /\ e.window_list[1] = w /\ RecordAt(e, 1).hilited = 0
       /\ RecordAt(e, 1).structure = {} /\ RecordAt(e, 1).content = {}
  BY <1>0, <1>4, <1>11, <1>13, NewRecord DEF Places, RecordAt
<1>17. ASSUME NEW i \in Places(d)
       PROVE  /\ i + 1 \in Places(e) /\ i \in Nat /\ i >= 1
              /\ e.window_list[i + 1] = d.window_list[i]
              /\ RecordAt(e, i + 1) = RecordAt(d, i)
  <2>1. i + 1 \in Places(e) /\ i \in Nat /\ i >= 1 /\ e.window_list[i + 1] = d.window_list[i]
    BY <1>11, <1>13 DEF Places
  <2>2. d.window_list[i] \in Windows /\ Contains(d.window_list, d.window_list[i])
    BY <1>1, PlacesAreListed
  <2> QED
    BY <1>4, <1>13, <2>1, <2>2 DEF RecordAt
<1>18. ASSUME NEW i \in Places(e)
       PROVE  i = 1 \/ \E k \in Places(d) : i = k + 1
  <2>1. i = 1 \/ (i - 1 \in Places(d) /\ i = (i - 1) + 1)
    BY <1>11, <1>13 DEF Places
  <2> QED
    BY <2>1
<1>19. ASSUME NEW y
       PROVE  Uncovered(e, y) <=> Uncovered(d, y)
  BY <1>16, <1>17, <1>18 DEF Uncovered, Has
<1>20. ASSUME NEW k \in Places(d), NEW y
       PROVE  First(e, k + 1, y) <=> First(d, k, y)
  <2>1. Has(e, k + 1, y) <=> Has(d, k, y)
    BY <1>17 DEF Has
  <2>2. \A j \in 1..k-1 : j \in Places(d) /\ j + 1 \in 1 .. (k + 1) - 1
    BY <1>11 DEF Places
  <2>3. \A j \in 1 .. (k + 1) - 1 : j = 1 \/ (j - 1 \in 1..k-1 /\ j = (j - 1) + 1)
    BY <1>11 DEF Places
  <2>4. ~Has(e, 1, y)
    BY <1>16 DEF Has
  <2>5. \A j \in 1..k-1 : Has(e, j + 1, y) <=> Has(d, j, y)
    BY <1>17, <2>2 DEF Has
  <2>6. (\A j \in 1 .. (k + 1) - 1 : ~Has(e, j, y)) <=> \A j \in 1..k-1 : ~Has(d, j, y)
    BY <2>2, <2>3, <2>4, <2>5
  <2> QED
    BY <1>17, <2>1, <2>6 DEF First
<1>21. \A y : ~First(e, 1, y)
  BY <1>16 DEF First, Has
<1>22. \A y : ByDialog(e, y) <=> ByDialog(d, y)
  BY <1>13 DEF ByDialog
<1>23. RegionsOK(e)
  <2>1. ASSUME NEW i \in Places(e), NEW y \in RecordAt(e, i).content
        PROVE  y \in RecordAt(e, i).visible <=> First(e, i, y)
    <3>1. PICK k \in Places(d) : i = k + 1
      BY <1>16, <1>18, <2>1
    <3>2. RecordAt(e, i) = RecordAt(d, k) /\ (First(e, i, y) <=> First(d, k, y))
      BY <1>17, <1>20, <3>1
    <3> QED
      BY <1>1, <2>1, <3>2 DEF RegionsOK
  <2> QED
    BY <1>13, <1>14, <2>1 DEF RegionsOK
<1>24. ScreenOK(e)
  <2> SUFFICES ASSUME NEW y \in Rows, ~ByDialog(e, y)
               PROVE  IF y = 0 THEN e.screen[y] = MenuBarRow
                      ELSE /\ Uncovered(e, y) => e.screen[y] = DesktopRow
                           /\ \A i \in Places(e) : First(e, i, y) => e.screen[y].of = e.window_list[i]
    BY DEF ScreenOK
  <2>1. IF y = 0 THEN d.screen[y] = MenuBarRow
        ELSE /\ Uncovered(d, y) => d.screen[y] = DesktopRow
             /\ \A i \in Places(d) : First(d, i, y) => d.screen[y].of = d.window_list[i]
    BY <1>1, <1>22, Zenon DEF ScreenOK
  <2>2. CASE y = 0
    BY <1>13, <2>1, <2>2
  <2>3. ASSUME y # 0, NEW i \in Places(e), First(e, i, y)
        PROVE  e.screen[y].of = e.window_list[i]
    <3>1. PICK k \in Places(d) : i = k + 1
      BY <1>18, <1>21, <2>3
    <3>2. First(d, k, y) /\ e.window_list[i] = d.window_list[k]
      BY <1>17, <1>20, <2>3, <3>1
    <3> QED
      BY <1>13, <2>1, <2>3, <3>2
  <2> QED
    BY <1>13, <1>19, <2>1, <2>2, <2>3
<1>25. DrawnOK(e, busy)
  <2> SUFFICES ASSUME NEW i \in Places(e), e.window_list[i] \notin Dialogs,
                      e.window_list[i] \notin busy, ~Contains(e.updates, e.window_list[i]),
                      NEW y \in Rows, y \in RecordAt(e, i).content, First(e, i, y)
               PROVE  e.screen[y] = Drawn(e.window_list[i]) \/ ByDialog(e, y)
    BY Zenon DEF DrawnOK
  <2>1. PICK k \in Places(d) : i = k + 1
    BY <1>16, <1>18
  <2>2. First(d, k, y) /\ e.window_list[i] = d.window_list[k] /\ RecordAt(e, i) = RecordAt(d, k)
    BY <1>17, <1>20, <2>1
  <2>3. ~Contains(d.updates, d.window_list[k])
    BY <1>8, <1>13, <2>2
  <2> QED
    BY <1>1, <1>13, <1>22, <2>2, <2>3, Zenon DEF DrawnOK
<1>26. ActiveOK(e)
  <2> SUFFICES ASSUME NEW i \in Places(e), NEW j \in Places(e),
                      WrittenBack(RecordAt(e, j).hilited) = 1, i # j
               PROVE  /\ WrittenBack(RecordAt(e, i).hilited) = 0
                      /\ i < j => e.window_list[i] \in Dialogs
    BY DEF ActiveOK
  <2>1. PICK l \in Places(d) : j = l + 1
    BY <1>16, <1>18, HilitedByte
  <2>2. RecordAt(e, j) = RecordAt(d, l)
    BY <1>17, <2>1
  <2>3. CASE i = 1
    BY <1>16, <2>3, HilitedByte
  <2>4. CASE i # 1
    <3>1. PICK k \in Places(d) : i = k + 1
      BY <1>18, <2>4
    <3>2. RecordAt(e, i) = RecordAt(d, k) /\ e.window_list[i] = d.window_list[k]
      BY <1>17, <3>1
    <3>3. k # l /\ (i < j => k < l)
      BY <1>17, <2>1, <3>1
    <3> QED
      BY <1>1, <2>2, <3>2, <3>3, Zenon DEF ActiveOK
  <2> QED
    BY <2>3, <2>4
<1>27. StateOK(e, busy)
  BY <1>13, <1>14, <1>15, <1>23, <1>24, <1>25, <1>26 DEF StateOK
<1>28. FrontToldOf(d, e)
  BY <1>16 DEF FrontToldOf
<1> QED
  BY <1>9, <1>13, <1>27, <1>28 DEF Leads

(* what a modal dialog draws is a dialog's                                  *)
LEMMA DrainedIsOK ==
  ASSUME NEW d, StateOK(d, {}), \A i \in DOMAIN d.updates : d.updates[i] \in Dialogs
  PROVE  /\ StateOK(Drained(d), {}) /\ Drained(d).window_list = d.window_list
         /\ Drained(d).inverted \subseteq d.inverted
<1> DEFINE DrawnBy(y) == {i \in DOMAIN d.updates : y \in DrawDialogWindow(d, d.updates[i])}
           screen == [y \in Rows |->
             IF DrawnBy(y) = {} THEN d.screen[y]
             ELSE Drawn(d.updates[CHOOSE i \in DrawnBy(y) : \A j \in DrawnBy(y) : j <= i])]
           inverted == {y \in d.inverted : DrawnBy(y) = {}}
<1>1. Typed(d) /\ IsState(d) /\ RegionsOK(d) /\ ScreenOK(d) /\ DrawnOK(d, {}) /\ ActiveOK(d)
  BY DEF StateOK, Typed
<1>2. PICK e : e = Drained(d)
  OBVIOUS
<1>3. e = [d EXCEPT !.screen = screen, !.inverted = inverted, !.updates = <<>>,
                    !.activates = <<>>]
  BY <1>2, Zenon DEF Drained
<1>4. screen = [y \in Rows |-> screen[y]] /\ inverted \subseteq d.inverted
  OBVIOUS
<1>5. ASSUME NEW y \in Rows
      PROVE  screen[y] = d.screen[y] \/ \E w \in Dialogs : screen[y] = Drawn(w)
  <2>1. CASE DrawnBy(y) = {}
    BY <2>1
  <2>2. CASE DrawnBy(y) # {}
    <3>1. DrawnBy(y) \subseteq DOMAIN d.updates /\ DOMAIN d.updates \subseteq Nat
      BY <1>1 DEF Typed
    <3>2. \E i \in DrawnBy(y) : \A j \in DrawnBy(y) : j <= i
      <4>1. DrawnBy(y) \subseteq 1..Len(d.updates) /\ Len(d.updates) \in Nat
        BY <1>1 DEF Typed
      <4> DEFINE S == {k \in 0..Len(d.updates) : Len(d.updates) - k \in DrawnBy(y)}
      <4>2. S \subseteq Nat
        OBVIOUS
      <4>3. S # {}
        <5>1. PICK i \in DrawnBy(y) : TRUE
          BY <2>2
        <5>2. i \in 1..Len(d.updates)
          BY <4>1, <5>1
        <5>3. Len(d.updates) - i \in 0..Len(d.updates)
                /\ Len(d.updates) - (Len(d.updates) - i) = i
          BY <4>1, <5>2
        <5>4. Len(d.updates) - i \in S
          BY <5>1, <5>3
        <5> QED
          BY <5>4
      <4>4. PICK k \in S : \A l \in S : k <= l
        <5> HIDE DEF S
        <5> QED
          BY <4>2, <4>3, LeastPlace
      <4>5. ASSUME NEW j \in DrawnBy(y)
            PROVE  j <= Len(d.updates) - k
        <5>1. j \in 1..Len(d.updates) /\ k \in 0..Len(d.updates)
          BY <4>1, <4>4
        <5>2. Len(d.updates) - j \in 0..Len(d.updates)
                /\ Len(d.updates) - (Len(d.updates) - j) = j
          BY <4>1, <5>1
        <5>3. Len(d.updates) - j \in S
          BY <4>5, <5>2
        <5>4. k <= Len(d.updates) - j
          BY <4>4, <5>3
        <5> QED
          BY <4>1, <5>1, <5>4
      <4> QED
        BY <4>4, <4>5
    <3>3. (CHOOSE i \in DrawnBy(y) : \A j \in DrawnBy(y) : j <= i) \in DrawnBy(y)
      BY <3>2, Zenon
    <3>4. PICK i \in DOMAIN d.updates : screen[y] = Drawn(d.updates[i])
      <4> HIDE DEF DrawnBy
      <4> QED
        BY <2>2, <3>1, <3>3, Zenon
    <3> QED
      BY <3>4
  <2> QED
    BY <2>1, <2>2
<1> HIDE DEF screen, inverted
<1>6. e = [window_list |-> d.window_list, record |-> d.record, updates |-> <<>>,
           activates |-> <<>>, screen |-> screen, inverted |-> inverted]
  BY <1>1, <1>3 DEF IsState
<1>7. /\ IsState(e) /\ e.window_list = d.window_list /\ e.record = d.record
      /\ e.updates = <<>> /\ e.activates = <<>> /\ e.screen = screen /\ e.inverted = inverted
  BY <1>6 DEF IsState
<1>8. Typed(e)
  <2>1. \A w \in Dialogs : Drawn(w) \in Row
    BY RowsAreNumbers DEF Drawn, Row
  <2>2. \A y \in Rows : screen[y] \in Row
    BY <1>1, <1>5, <2>1 DEF Typed
  <2>3. screen \in [Rows -> Row]
    BY <1>4, <2>2
  <2>4. e.updates \in Seq(Windows) /\ e.activates \in Seq(Windows \cup {NULL})
    BY <1>7
  <2> QED
    BY <1>1, <1>4, <1>7, <2>3, <2>4 DEF Typed
<1>9. Places(e) = Places(d) /\ \A i : RecordAt(e, i) = RecordAt(d, i)
  BY <1>7 DEF Places, RecordAt
<1>10. \A y : Uncovered(e, y) <=> Uncovered(d, y)
  BY <1>9, Zenon DEF Uncovered, Has
<1>11. \A i, y : First(e, i, y) <=> First(d, i, y)
  BY <1>9, Zenon DEF First, Has
<1>12. ASSUME NEW y \in Rows, ~ByDialog(e, y)
       PROVE  e.screen[y] = d.screen[y] /\ ~ByDialog(d, y)
  BY <1>5, <1>7, <1>12 DEF ByDialog
<1>13. RegionsOK(e)
  BY <1>1, <1>7, <1>9, <1>11, Zenon DEF RegionsOK
<1>14. ScreenOK(e)
  <2> SUFFICES ASSUME NEW y \in Rows, ~ByDialog(e, y)
               PROVE  IF y = 0 THEN e.screen[y] = MenuBarRow
                      ELSE /\ Uncovered(e, y) => e.screen[y] = DesktopRow
                           /\ \A i \in Places(e) : First(e, i, y) => e.screen[y].of = e.window_list[i]
    BY DEF ScreenOK
  <2>1. IF y = 0 THEN d.screen[y] = MenuBarRow
        ELSE /\ Uncovered(d, y) => d.screen[y] = DesktopRow
             /\ \A i \in Places(d) : First(d, i, y) => d.screen[y].of = d.window_list[i]
    BY <1>1, <1>12, Zenon DEF ScreenOK
  <2> QED
    BY <1>7, <1>9, <1>10, <1>11, <1>12, <2>1
<1>15. DrawnOK(e, {})
  <2> SUFFICES ASSUME NEW i \in Places(e), e.window_list[i] \notin Dialogs,
                      NEW y \in Rows, y \in RecordAt(e, i).content, First(e, i, y), ~ByDialog(e, y)
               PROVE  e.screen[y] = Drawn(e.window_list[i])
    BY Zenon DEF DrawnOK
  <2>1. ~Contains(d.updates, d.window_list[i])
    BY <1>1, <1>7 DEF Typed, Contains
  <2>2. d.screen[y] = Drawn(d.window_list[i]) \/ ByDialog(d, y)
    BY <1>1, <1>7, <1>9, <1>11, <2>1, Zenon DEF DrawnOK
  <2> QED
    BY <1>7, <1>12, <2>2
<1>16. ActiveOK(e)
  BY <1>1, <1>7, <1>9, Zenon DEF ActiveOK
<1>17. StateOK(e, {})
  BY <1>7, <1>8, <1>13, <1>14, <1>15, <1>16 DEF StateOK
<1> QED
  BY <1>2, <1>4, <1>7, <1>17

(* BeginUpDate and EndUpDate: only a clip region changes                    *)
LEMMA ClippedIsOK ==
  ASSUME NEW d, NEW busy, StateOK(d, busy), NEW w \in Windows, NEW clip \in SUBSET RowsOf(w)
  PROVE  /\ StateOK([d EXCEPT !.record[w].clip = clip], busy)
         /\ [d EXCEPT !.record[w].clip = clip].window_list = d.window_list
         /\ [d EXCEPT !.record[w].clip = clip].inverted = d.inverted
         /\ [d EXCEPT !.record[w].clip = clip].record[w].clip = clip
         /\ [d EXCEPT !.record[w].clip = clip].record[w].update = d.record[w].update
<1> DEFINE R == [d.record EXCEPT ![w].clip = clip]
<1>1. Typed(d) /\ IsState(d) /\ d.record = [v \in Windows |-> d.record[v]]
        /\ RegionsOK(d) /\ ScreenOK(d) /\ DrawnOK(d, busy) /\ ActiveOK(d)
        /\ \A v \in Windows : RecordOK(v, d.record[v]) /\ d.record[v].hilited \in {0, 1}
  BY DEF StateOK, Typed
<1>2. PICK e : e = [d EXCEPT !.record[w].clip = clip]
  OBVIOUS
<1>3. R = [v \in Windows |-> IF v = w THEN [d.record[w] EXCEPT !.clip = clip] ELSE d.record[v]]
  BY <1>1
<1>4. R = [v \in Windows |-> R[v]] /\ R[w] = [d.record[w] EXCEPT !.clip = clip]
        /\ \A v \in Windows : v # w => R[v] = d.record[v]
  BY <1>3
<1> HIDE DEF R
<1>5. e = [window_list |-> d.window_list, record |-> R, updates |-> d.updates,
           activates |-> d.activates, screen |-> d.screen, inverted |-> d.inverted]
  BY <1>1, <1>2 DEF IsState, R
<1>6. /\ IsState(e) /\ e.window_list = d.window_list /\ e.record = R /\ e.updates = d.updates
      /\ e.activates = d.activates /\ e.screen = d.screen /\ e.inverted = d.inverted
  BY <1>5 DEF IsState
<1>7. R[w] = [top |-> d.record[w].top, hilited |-> d.record[w].hilited,
              structure |-> d.record[w].structure, content |-> d.record[w].content,
              visible |-> d.record[w].visible, clip |-> clip, update |-> d.record[w].update]
  <2>1. Fields(d.record[w])
    BY <1>1 DEF RecordOK
  <2> QED
    BY <1>4, <2>1 DEF Fields
<1>8. RecordOK(w, R[w]) /\ R[w].clip = clip
  <2>1. RecordOK(w, d.record[w])
    BY <1>1
  <2> QED
    BY <1>7, <2>1 DEF RecordOK, Fields
<1>9. ASSUME NEW v \in Windows
      PROVE  /\ RecordOK(v, R[v]) /\ R[v].top = d.record[v].top
             /\ R[v].hilited = d.record[v].hilited /\ R[v].structure = d.record[v].structure
             /\ R[v].content = d.record[v].content /\ R[v].visible = d.record[v].visible
             /\ R[v].update = d.record[v].update
  <2>1. CASE v = w
    BY <1>7, <1>8, <2>1
  <2>2. CASE v # w
    BY <1>1, <1>4, <2>2
  <2> QED
    BY <2>1, <2>2
<1>10. Typed(e)
  BY <1>1, <1>4, <1>6, <1>9 DEF Typed
<1>11. Places(e) = Places(d)
  BY <1>6 DEF Places
<1>12. ASSUME NEW i \in Places(d)
       PROVE  /\ RecordAt(e, i).hilited = RecordAt(d, i).hilited
              /\ RecordAt(e, i).structure = RecordAt(d, i).structure
              /\ RecordAt(e, i).content = RecordAt(d, i).content
              /\ RecordAt(e, i).visible = RecordAt(d, i).visible
  BY <1>1, <1>6, <1>9, PlacesAreListed DEF RecordAt
<1>13. \A i \in Places(d) : \A y : Has(e, i, y) <=> Has(d, i, y)
  BY <1>12 DEF Has
<1>14. \A y : Uncovered(e, y) <=> Uncovered(d, y)
  BY <1>11, <1>13, Zenon DEF Uncovered
<1>15. \A i, y : First(e, i, y) <=> First(d, i, y)
  <2>1. \A i \in Places(d) : \A j \in 1..i-1 : j \in Places(d)
    BY <1>1, PlacesAreListed DEF Places
  <2> QED
    BY <1>11, <1>13, <2>1, Zenon DEF First
<1>16. \A y : ByDialog(e, y) <=> ByDialog(d, y)
  BY <1>6 DEF ByDialog
<1>17. RegionsOK(e)
  <2>1. \A v \in Windows : Placed(v, e.record[v]) /\ e.record[v].visible = e.record[v].update
    BY <1>1, <1>6, <1>9 DEF RegionsOK, Placed
  <2>2. \A i \in Places(d) : \A y \in RecordAt(e, i).content :
          y \in RecordAt(e, i).visible <=> First(e, i, y)
    BY <1>1, <1>12, <1>15 DEF RegionsOK
  <2> QED
    BY <1>11, <2>1, <2>2 DEF RegionsOK
<1>18. ScreenOK(e)
  <2> SUFFICES ASSUME NEW y \in Rows, ~ByDialog(e, y)
               PROVE  IF y = 0 THEN e.screen[y] = MenuBarRow
                      ELSE /\ Uncovered(e, y) => e.screen[y] = DesktopRow
                           /\ \A i \in Places(e) : First(e, i, y) => e.screen[y].of = e.window_list[i]
    BY DEF ScreenOK
  <2>1. IF y = 0 THEN d.screen[y] = MenuBarRow
        ELSE /\ Uncovered(d, y) => d.screen[y] = DesktopRow
             /\ \A i \in Places(d) : First(d, i, y) => d.screen[y].of = d.window_list[i]
    BY <1>1, <1>16, Zenon DEF ScreenOK
  <2> QED
    BY <1>6, <1>11, <1>14, <1>15, <2>1
<1>19. DrawnOK(e, busy)
  BY <1>1, <1>6, <1>11, <1>12, <1>15, <1>16, Zenon DEF DrawnOK
<1>20. ActiveOK(e)
  BY <1>1, <1>6, <1>11, <1>12, Zenon DEF ActiveOK
<1>21. StateOK(e, busy)
  BY <1>1, <1>6, <1>9, <1>10, <1>17, <1>18, <1>19, <1>20 DEF StateOK
<1>22. e.record[w].clip = clip /\ e.record[w].update = d.record[w].update
  BY <1>6, <1>8, <1>9
<1> QED
  BY <1>2, <1>6, <1>21, <1>22

(* What the application draws between them is all that was to be drawn.     *)
LEMMA PaintedIsOK ==
  ASSUME NEW d, NEW w \in Windows \ Dialogs, StateOK(d, {w}), Contains(d.window_list, w)
  PROVE  LET rows == d.record[w].update \cap d.record[w].content
         IN  StateOK(Paint(d, rows, Drawn(w)), {})
<1> DEFINE rows == d.record[w].update \cap d.record[w].content
<1>1. Typed(d) /\ IsState(d) /\ RegionsOK(d) /\ ScreenOK(d) /\ DrawnOK(d, {w}) /\ ActiveOK(d)
  BY DEF StateOK, Typed
<1>2. PICK e : e = Paint(d, rows, Drawn(w))
  OBVIOUS
<1>3. PICK p \in Places(d) : d.window_list[p] = w
  BY <1>1, PlacesAreListed
<1>4. ASSUME NEW y
      PROVE  y \in rows <=> y \in RecordAt(d, p).content /\ First(d, p, y)
  BY <1>1, <1>3 DEF RegionsOK, RecordAt
<1> HIDE DEF rows
<1>5. /\ IsState(e) /\ e.window_list = d.window_list /\ e.record = d.record
      /\ e.updates = d.updates /\ e.activates = d.activates
      /\ e.screen = [y \in Rows |-> IF y \in rows THEN Drawn(w) ELSE d.screen[y]]
      /\ e.inverted = d.inverted \ rows
  BY <1>1, <1>2, PaintFields
<1>6. e.screen = [y \in Rows |-> e.screen[y]]
        /\ \A y \in Rows : /\ y \in rows => e.screen[y] = Drawn(w)
                           /\ y \notin rows => e.screen[y] = d.screen[y]
  BY <1>5
<1>7. Typed(e)
  <2>1. Drawn(w) \in Row
    BY DEF Drawn, Row
  <2>2. \A y \in Rows : e.screen[y] \in Row
    BY <1>1, <1>6, <2>1 DEF Typed
  <2>3. e.screen \in [Rows -> Row]
    BY <1>6, <2>2
  <2> QED
    BY <1>1, <1>5, <2>3 DEF Typed
<1>8. Places(e) = Places(d) /\ \A i : RecordAt(e, i) = RecordAt(d, i)
  BY <1>5 DEF Places, RecordAt
<1>9. \A y : Uncovered(e, y) <=> Uncovered(d, y)
  BY <1>8, Zenon DEF Uncovered, Has
<1>10. \A i, y : First(e, i, y) <=> First(d, i, y)
  BY <1>8, Zenon DEF First, Has
<1>11. \A y \in Rows : y \notin rows => (ByDialog(e, y) <=> ByDialog(d, y))
  BY <1>6 DEF ByDialog
<1>12. RegionsOK(e)
  BY <1>1, <1>5, <1>8, <1>10, Zenon DEF RegionsOK
<1>13. ASSUME NEW y \in rows, NEW i \in Places(d), First(d, i, y)
       PROVE  i = p
  BY <1>1, <1>3, <1>4, <1>13, FirstIsUnique
<1>14. ScreenOK(e)
  <2> SUFFICES ASSUME NEW y \in Rows, ~ByDialog(e, y)
               PROVE  IF y = 0 THEN e.screen[y] = MenuBarRow
                      ELSE /\ Uncovered(e, y) => e.screen[y] = DesktopRow
                           /\ \A i \in Places(e) : First(e, i, y) => e.screen[y].of = e.window_list[i]
    BY DEF ScreenOK
  <2>1. CASE y \in rows
    <3>1. First(d, p, y) /\ e.screen[y].of = w
      BY <1>4, <1>6, <2>1 DEF Drawn
    <3>2. y # 0
      <4>1. Placed(w, d.record[w]) /\ y \in d.record[w].content /\ d.record[w].top \in Tops
        BY <1>1, <1>3, <1>4, <2>1 DEF RegionsOK, RecordAt, Typed, RecordOK
      <4>2. y \in StructureAt(w, d.record[w].top)
        BY <4>1, WhereWindowsAre DEF Placed
      <4> QED
        BY <4>1, <4>2, WhereWindowsAre
    <3>3. ~Uncovered(d, y)
      BY <1>3, <3>1 DEF Uncovered, First
    <3> QED
      BY <1>3, <1>5, <1>8, <1>9, <1>10, <1>13, <2>1, <3>1, <3>2, <3>3
  <2>2. CASE y \notin rows
    <3>1. IF y = 0 THEN d.screen[y] = MenuBarRow
          ELSE /\ Uncovered(d, y) => d.screen[y] = DesktopRow
               /\ \A i \in Places(d) : First(d, i, y) => d.screen[y].of = d.window_list[i]
      BY <1>1, <1>11, <2>2, Zenon DEF ScreenOK
    <3>2. e.screen[y] = d.screen[y]
      BY <1>6, <2>2
    <3> QED
      BY <1>5, <1>8, <1>9, <1>10, <3>1, <3>2
  <2> QED
    BY <2>1, <2>2
<1>15. DrawnOK(e, {})
  <2> SUFFICES ASSUME NEW i \in Places(e), e.window_list[i] \notin Dialogs,
                      ~Contains(e.updates, e.window_list[i]),
                      NEW y \in Rows, y \in RecordAt(e, i).content, First(e, i, y)
               PROVE  e.screen[y] = Drawn(e.window_list[i]) \/ ByDialog(e, y)
    BY Zenon DEF DrawnOK
  <2>1. i \in Places(d) /\ First(d, i, y) /\ y \in RecordAt(d, i).content
    BY <1>8, <1>10
  <2>2. CASE i = p
    BY <1>3, <1>4, <1>5, <1>6, <2>1, <2>2
  <2>3. CASE i # p
    <3>1. y \notin rows
      BY <1>13, <2>1, <2>3
    <3>2. d.window_list[i] \notin {w}
      BY <1>1, <1>3, <2>1, <2>3, PlacesAreListed
    <3>3. d.screen[y] = Drawn(d.window_list[i]) \/ ByDialog(d, y)
      BY <1>1, <1>5, <2>1, <3>2, Zenon DEF DrawnOK
    <3> QED
      BY <1>5, <1>6, <1>11, <3>1, <3>3
  <2> QED
    BY <2>2, <2>3
<1>16. ActiveOK(e)
  BY <1>1, <1>5, <1>8, Zenon DEF ActiveOK
<1>17. StateOK(e, {})
  BY <1>5, <1>7, <1>12, <1>14, <1>15, <1>16 DEF StateOK
<1> QED
  BY <1>2, <1>17 DEF rows
-----------------------------------------------------------------------------
(* Menus                                                                    *)

(* Drawing by exclusive-or.                                                 *)
SymmetricDifference(A, B) == (A \ B) \cup (B \ A)

PopUpOK(p) ==
  /\ p = [screen |-> p.screen, inverted |-> p.inverted, menu |-> p.menu, hovered |-> p.hovered]
  /\ p.menu \in Menus /\ p.hovered \subseteq PopUpRows(p.menu) \cap Rows

LEMMA PopUpRowsAreBelow ==
  ASSUME NEW m \in Menus
  PROVE  PopUpRows(m) \subseteq Nat \ {0}
<1>1. Items[m] \in Nat
  BY MenuAssumption
<1> QED
  BY <1>1 DEF PopUpRows

LEMMA SameState ==
  ASSUME NEW d, NEW e, IsState(d), IsState(e), d.window_list = e.window_list,
         d.record = e.record, d.updates = e.updates, d.activates = e.activates,
         d.screen = e.screen, d.inverted = e.inverted
  PROVE  d = e
BY DEF IsState

LEMMA CloseFields ==
  ASSUME NEW d, IsState(d), NEW p
  PROVE  LET e == Close(d, p)
             hovered == SymmetricDifference(d.inverted, p.hovered)
         IN  /\ IsState(e) /\ e.window_list = d.window_list /\ e.record = d.record
             /\ e.updates = d.updates /\ e.activates = d.activates
             /\ e.screen = [y \in Rows |-> IF y \in PopUpRows(p.menu)
                                           THEN p.screen[y] ELSE d.screen[y]]
             /\ e.inverted =
                  SymmetricDifference((hovered \ PopUpRows(p.menu)) \cup p.inverted, MenuBar)
<1> DEFINE hovered == SymmetricDifference(d.inverted, p.hovered)
           screen == [y \in Rows |-> IF y \in PopUpRows(p.menu) THEN p.screen[y] ELSE d.screen[y]]
           inverted == (hovered \ PopUpRows(p.menu)) \cup p.inverted
<1>1. PICK x : x = Xor(d, p.hovered)
  OBVIOUS
<1>2. /\ IsState(x) /\ x.window_list = d.window_list /\ x.record = d.record
      /\ x.updates = d.updates /\ x.activates = d.activates /\ x.screen = d.screen
      /\ x.inverted = hovered
  BY <1>1, XorFields DEF SymmetricDifference
<1>3. PICK r : r = [x EXCEPT
        !.screen = [y \in Rows |-> IF y \in PopUpRows(p.menu) THEN p.screen[y] ELSE @[y]],
        !.inverted = (@ \ PopUpRows(p.menu)) \cup p.inverted]
  OBVIOUS
<1>4. /\ [y \in Rows |-> IF y \in PopUpRows(p.menu) THEN p.screen[y] ELSE x.screen[y]] = screen
      /\ (x.inverted \ PopUpRows(p.menu)) \cup p.inverted = inverted
  BY <1>2
<1>5. Close(d, p) = Xor(r, MenuBar)
  BY <1>1, <1>3 DEF Close
<1> HIDE DEF screen, inverted
<1>6. r = [x EXCEPT !.screen = screen, !.inverted = inverted]
  BY <1>3, <1>4
<1>7. r = [window_list |-> d.window_list, record |-> d.record, updates |-> d.updates,
           activates |-> d.activates, screen |-> screen, inverted |-> inverted]
  BY <1>2, <1>6 DEF IsState
<1>8. /\ IsState(r) /\ r.window_list = d.window_list /\ r.record = d.record
      /\ r.updates = d.updates /\ r.activates = d.activates /\ r.screen = screen
      /\ r.inverted = inverted
  BY <1>7 DEF IsState
<1>9. PICK e : e = Close(d, p)
  OBVIOUS
<1>10. /\ IsState(e) /\ e.window_list = d.window_list /\ e.record = d.record
       /\ e.updates = d.updates /\ e.activates = d.activates /\ e.screen = screen
       /\ e.inverted = SymmetricDifference(inverted, MenuBar)
  BY <1>5, <1>8, <1>9, XorFields DEF SymmetricDifference
<1> QED
  BY <1>9, <1>10 DEF screen, inverted

LEMMA OpenFields ==
  ASSUME NEW d, IsState(d), NEW m
  PROVE  LET e == Open(d, m)
         IN  /\ IsState(e) /\ e.window_list = d.window_list /\ e.record = d.record
             /\ e.updates = d.updates /\ e.activates = d.activates
             /\ e.screen = [y \in Rows |-> IF y \in PopUpRows(m) THEN MenuRow(m) ELSE d.screen[y]]
             /\ e.inverted = SymmetricDifference(d.inverted, MenuBar) \ PopUpRows(m)
<1>1. PICK x : x = Xor(d, MenuBar)
  OBVIOUS
<1>2. /\ IsState(x) /\ x.window_list = d.window_list /\ x.record = d.record
      /\ x.updates = d.updates /\ x.activates = d.activates /\ x.screen = d.screen
      /\ x.inverted = SymmetricDifference(d.inverted, MenuBar)
  BY <1>1, XorFields DEF SymmetricDifference
<1>3. PICK e : e = Open(d, m)
  OBVIOUS
<1>4. e = Paint(x, PopUpRows(m), MenuRow(m))
  BY <1>1, <1>3 DEF Open
<1>5. /\ IsState(e) /\ e.window_list = x.window_list /\ e.record = x.record
      /\ e.updates = x.updates /\ e.activates = x.activates
      /\ e.screen = [y \in Rows |-> IF y \in PopUpRows(m) THEN MenuRow(m) ELSE x.screen[y]]
      /\ e.inverted = x.inverted \ PopUpRows(m)
  BY <1>2, <1>4, PaintFields
<1> QED
  BY <1>2, <1>3, <1>5

LEMMA OpenThenClose ==
  ASSUME NEW d, Typed(d), NEW m \in Menus
  PROVE  /\ Typed(Open(d, m)) /\ PopUpOK(Opened(d, m))
         /\ Open(d, m).window_list = d.window_list
         /\ Close(Open(d, m), Opened(d, m)) = d
<1>1. IsState(d) /\ d.screen \in [Rows -> Row] /\ d.inverted \subseteq Rows
  BY DEF Typed
<1>2. PICK o : o = Open(d, m)
  OBVIOUS
<1>3. /\ IsState(o) /\ o.window_list = d.window_list /\ o.record = d.record
      /\ o.updates = d.updates /\ o.activates = d.activates
      /\ o.screen = [y \in Rows |-> IF y \in PopUpRows(m) THEN MenuRow(m) ELSE d.screen[y]]
      /\ o.inverted = SymmetricDifference(d.inverted, MenuBar) \ PopUpRows(m)
  BY <1>1, <1>2, OpenFields
<1>4. PICK p : p = Opened(d, m)
  OBVIOUS
<1>5. /\ p.menu = m /\ p.hovered = {} /\ p.inverted = d.inverted \cap PopUpRows(m)
      /\ p.screen = [y \in PopUpRows(m) |-> d.screen[y]]
      /\ p = [screen |-> p.screen, inverted |-> p.inverted, menu |-> p.menu, hovered |-> p.hovered]
  BY <1>4 DEF Opened
<1>6. PopUpOK(p)
  BY <1>5 DEF PopUpOK
<1>7. Typed(o)
  <2>1. MenuRow(m) \in Row
    BY DEF MenuRow, Row
  <2>2. o.screen \in [Rows -> Row]
    BY <1>1, <1>3, <2>1
  <2>3. o.inverted \subseteq Rows
    BY <1>1, <1>3, RowsAreNumbers DEF SymmetricDifference
  <2> QED
    BY <1>3, <2>2, <2>3 DEF Typed
<1>8. PICK e : e = Close(o, p)
  OBVIOUS
<1>9. PICK hovered : hovered = SymmetricDifference(o.inverted, p.hovered)
  OBVIOUS
<1>10. /\ IsState(e) /\ e.window_list = o.window_list /\ e.record = o.record
       /\ e.updates = o.updates /\ e.activates = o.activates
       /\ e.screen = [y \in Rows |-> IF y \in PopUpRows(p.menu) THEN p.screen[y] ELSE o.screen[y]]
       /\ e.inverted = SymmetricDifference((hovered \ PopUpRows(p.menu)) \cup p.inverted, MenuBar)
  <2>1. IsState(o)
    BY <1>3
  <2> QED
    BY <1>8, <1>9, <2>1, CloseFields
<1>11. e.screen = d.screen
  <2>1. d.screen = [y \in Rows |-> d.screen[y]]
    BY <1>1
  <2>2. \A y \in Rows : (IF y \in PopUpRows(p.menu) THEN p.screen[y] ELSE o.screen[y]) = d.screen[y]
    BY <1>3, <1>5
  <2> QED
    BY <1>10, <2>1, <2>2
<1>12. e.inverted = d.inverted
  <2>1. hovered = o.inverted
    BY <1>5, <1>9 DEF SymmetricDifference
  <2>2. MenuBar \cap PopUpRows(m) = {}
    BY PopUpRowsAreBelow DEF MenuBar
  <2> QED
    BY <1>3, <1>5, <1>10, <2>1, <2>2 DEF SymmetricDifference
<1>13. e = d
  BY <1>1, <1>3, <1>10, <1>11, <1>12, SameState
<1> QED
  BY <1>2, <1>3, <1>4, <1>6, <1>7, <1>8, <1>13

LEMMA HoverThenClose ==
  ASSUME NEW d, Typed(d), NEW p, PopUpOK(p), NEW mouse \in Mouse
  PROVE  LET hovering == [p EXCEPT !.hovered = Hovered(p, mouse)]
         IN  /\ Typed(Hover(d, p, mouse)) /\ PopUpOK(hovering)
             /\ Hover(d, p, mouse).window_list = d.window_list
             /\ Close(Hover(d, p, mouse), hovering) = Close(d, p)
<1>1. IsState(d) /\ d.inverted \subseteq Rows
  BY DEF Typed
<1>2. Hovered(p, mouse) \subseteq PopUpRows(p.menu) \cap Rows
  <2>1. mouse \in PopUpRows(p.menu) => mouse \in Rows
    <3>1. PopUpRows(p.menu) \subseteq Nat
      BY PopUpRowsAreBelow DEF PopUpOK
    <3>2. mouse \in Desktop \/ mouse \notin Nat
      BY MenuAssumption DEF Mouse
    <3> QED
      BY <3>1, <3>2 DEF Rows
  <2> QED
    BY <2>1 DEF Hovered, PopUpOK
<1>3. PICK over : over = Hovered(p, mouse)
  OBVIOUS
<1>4. PICK q : q = [p EXCEPT !.hovered = over]
  OBVIOUS
<1>5. /\ q.menu = p.menu /\ q.hovered = over /\ q.inverted = p.inverted /\ q.screen = p.screen
      /\ PopUpOK(q)
  <2>1. q = [screen |-> p.screen, inverted |-> p.inverted, menu |-> p.menu, hovered |-> over]
    BY <1>4 DEF PopUpOK
  <2> QED
    BY <1>2, <1>3, <2>1 DEF PopUpOK
<1>6. PICK x : x = Xor(d, over)
  OBVIOUS
<1>7. /\ IsState(x) /\ x.window_list = d.window_list /\ x.record = d.record
      /\ x.updates = d.updates /\ x.activates = d.activates /\ x.screen = d.screen
      /\ x.inverted = SymmetricDifference(d.inverted, over)
  BY <1>1, <1>6, XorFields DEF SymmetricDifference
<1>8. PICK h : h = Hover(d, p, mouse)
  OBVIOUS
<1>9. h = Xor(x, p.hovered)
  BY <1>3, <1>6, <1>8 DEF Hover
<1>10. /\ IsState(h) /\ h.window_list = d.window_list /\ h.record = d.record
       /\ h.updates = d.updates /\ h.activates = d.activates /\ h.screen = d.screen
       /\ h.inverted = SymmetricDifference(SymmetricDifference(d.inverted, over), p.hovered)
  BY <1>7, <1>9, XorFields DEF SymmetricDifference
<1>11. Typed(h)
  <2>1. h.inverted \subseteq Rows
    BY <1>1, <1>2, <1>3, <1>10 DEF SymmetricDifference, PopUpOK
  <2> QED
    BY <1>10, <2>1 DEF Typed
<1>12. SymmetricDifference(h.inverted, over) = SymmetricDifference(d.inverted, p.hovered)
  BY <1>10 DEF SymmetricDifference
<1>13. PICK e, f : e = Close(h, q) /\ f = Close(d, p)
  OBVIOUS
<1>14. PICK hovered : hovered = SymmetricDifference(d.inverted, p.hovered)
  OBVIOUS
<1>15. /\ IsState(e) /\ e.window_list = h.window_list /\ e.record = h.record
       /\ e.updates = h.updates /\ e.activates = h.activates
       /\ e.screen = [y \in Rows |-> IF y \in PopUpRows(q.menu) THEN q.screen[y] ELSE h.screen[y]]
       /\ e.inverted = SymmetricDifference((hovered \ PopUpRows(q.menu)) \cup q.inverted, MenuBar)
  <2>1. IsState(h) /\ hovered = SymmetricDifference(h.inverted, q.hovered)
    BY <1>5, <1>10, <1>12, <1>14
  <2> QED
    BY <1>13, <2>1, CloseFields
<1>16. /\ IsState(f) /\ f.window_list = d.window_list /\ f.record = d.record
       /\ f.updates = d.updates /\ f.activates = d.activates
       /\ f.screen = [y \in Rows |-> IF y \in PopUpRows(p.menu) THEN p.screen[y] ELSE d.screen[y]]
       /\ f.inverted = SymmetricDifference((hovered \ PopUpRows(p.menu)) \cup p.inverted, MenuBar)
  BY <1>1, <1>13, <1>14, CloseFields
<1>17. e = f
  <2>1. e.screen = f.screen /\ e.inverted = f.inverted
    BY <1>5, <1>10, <1>15, <1>16
  <2> QED
    BY <1>10, <1>15, <1>16, <2>1, SameState
<1> QED
  BY <1>3, <1>4, <1>5, <1>8, <1>10, <1>11, <1>13, <1>17
-----------------------------------------------------------------------------
(* The inductive invariant: with the menu closed the state is in order, and *)
(* each of the traps that take several steps knows how to finish.           *)
MenuOK ==
  /\ selecting \in BOOLEAN
  /\ popup_menu # {} => selecting /\ \E p \in popup_menu : popup_menu = {p} /\ PopUpOK(p)
OutlineOK(o) ==
  /\ o = [window |-> o.window, top |-> o.top]
  /\ o.window \in Windows /\ o.top \in Tops
  /\ Listed(o.window) /\ wm.record[o.window].structure # {}
  /\ wm.inverted = SymmetricDifference(Edges(o.window, wm.record[o.window].top),
                                       Edges(o.window, o.top))
DragOK ==
  \/ dragged = {} /\ AllClosed.inverted = {}
  \/ ~selecting /\ updating = {} /\ \E o \in dragged : dragged = {o} /\ OutlineOK(o)
UpdateOK ==
  /\ previous_clip_region \subseteq UNION {RowsOf(w) : w \in Windows}
  /\ updating # {} =>
       /\ ~selecting /\ dragged = {}
       /\ \E w \in updating : /\ updating = {w} /\ w \in Windows \ Dialogs /\ Listed(w)
                              /\ wm.record[w].clip = wm.record[w].update
                              /\ previous_clip_region \subseteq RowsOf(w)
Invariant ==
  /\ Typed(wm) /\ StateOK(AllClosed, updating)
  /\ MenuOK /\ DragOK /\ UpdateOK

LEMMA Quiet ==
  ASSUME Invariant, ~selecting
  PROVE  /\ popup_menu = {} /\ AllClosed = wm /\ StateOK(wm, updating)
         /\ dragged = {} => wm.inverted = {}
<1>1. popup_menu = {} /\ AllClosed = wm
  BY DEF Invariant, MenuOK, AllClosed
<1>2. dragged = {} => wm.inverted = {}
  BY <1>1 DEF Invariant, DragOK
<1> QED
  BY <1>1, <1>2 DEF Invariant

(* a trap that takes one step                                               *)
LEMMA TrapKeepsInvariant ==
  ASSUME Invariant, dragged = {}, ~selecting, updating = {}, StateOK(wm', {}),
         wm'.inverted \subseteq wm.inverted, UNCHANGED <<dragged, app, menu>>
  PROVE  Invariant'
<1>1. popup_menu = {} /\ wm.inverted = {}
  BY Quiet
<1>2. /\ dragged' = {} /\ selecting' = selecting /\ updating' = {} /\ popup_menu' = {}
      /\ previous_clip_region' = previous_clip_region
  BY <1>1 DEF app, menu
<1>3. AllClosed' = wm'
  BY <1>2 DEF AllClosed
<1>4. Typed(wm') /\ StateOK(AllClosed', updating')
  BY <1>2, <1>3 DEF StateOK
<1>5. MenuOK'
  BY <1>2 DEF MenuOK, Invariant
<1>6. DragOK'
  BY <1>1, <1>2, <1>3 DEF DragOK
<1>7. UpdateOK'
  BY <1>2 DEF Invariant, UpdateOK
<1> QED
  BY <1>4, <1>5, <1>6, <1>7 DEF Invariant

LEMMA UnchangedKeepsInvariant ==
  ASSUME Invariant, UNCHANGED <<wm, dragged, app, menu>>
  PROVE  Invariant'
<1>1. /\ wm' = wm /\ dragged' = dragged /\ selecting' = selecting /\ updating' = updating
      /\ popup_menu' = popup_menu /\ previous_clip_region' = previous_clip_region
  BY DEF app, menu
<1>2. AllClosed' = AllClosed
  BY <1>1 DEF AllClosed
<1>3. MenuOK' /\ UpdateOK'
  BY <1>1 DEF Invariant, MenuOK, UpdateOK, Listed
<1>4. DragOK'
  BY <1>1, <1>2 DEF Invariant, DragOK, OutlineOK, Listed
<1>5. Typed(wm') /\ StateOK(AllClosed', updating')
  BY <1>1, <1>2 DEF Invariant
<1> QED
  BY <1>3, <1>4, <1>5 DEF Invariant

(* What the steps do to the invariant and to the window in front.           *)
Keeps == Invariant' /\ FrontToldOf(wm, wm')

LEMMA LeadsKeeps ==
  ASSUME Invariant, dragged = {}, ~selecting, updating = {}, Leads(wm, wm', {}),
         UNCHANGED <<dragged, app, menu>>
  PROVE  Keeps
BY TrapKeepsInvariant DEF Leads, Keeps

LEMMA SameFront ==
  ASSUME NEW d, NEW e, e.window_list = d.window_list
  PROVE  FrontToldOf(d, e)
BY DEF FrontToldOf

LEMMA UnchangedKeeps ==
  ASSUME Invariant, UNCHANGED <<wm, dragged, app, menu>>
  PROVE  Keeps
BY UnchangedKeepsInvariant, SameFront DEF Keeps
-----------------------------------------------------------------------------
(* Step by step                                                             *)

LEMMA TailIsContained ==
  ASSUME NEW S, NEW s \in Seq(S), s # <<>>
  PROVE  /\ Tail(s) \in Seq(S) /\ s[1] \in S
         /\ \A u : Contains(s, u) => Contains(Tail(s), u) \/ u = s[1]
<1>1. /\ Tail(s) \in Seq(S) /\ Len(s) \in Nat /\ Len(s) >= 1 /\ Len(Tail(s)) = Len(s) - 1
      /\ \A i \in 1 .. Len(s) - 1 : Tail(s)[i] = s[i + 1]
  OBVIOUS
<1>2. ASSUME NEW i \in 1..Len(s)
      PROVE  i = 1 \/ (i - 1 \in 1 .. Len(s) - 1 /\ (i - 1) + 1 = i)
  BY <1>1
<1>3. ASSUME NEW u, Contains(s, u), u # s[1]
      PROVE  Contains(Tail(s), u)
  <2>1. PICK i \in 1..Len(s) : s[i] = u
    BY <1>3 DEF Contains
  <2>2. i - 1 \in 1 .. Len(s) - 1 /\ Tail(s)[i - 1] = u
    BY <1>1, <1>2, <1>3, <2>1
  <2> QED
    BY <1>1, <2>2 DEF Contains
<1> QED
  BY <1>1, <1>3

LEMMA TakeActivateKeeps ==
  ASSUME Invariant, TakeActivate
  PROVE  Keeps
<1>1. /\ dragged = {} /\ ~selecting /\ updating = {} /\ UNCHANGED <<dragged, app, menu>>
      /\ wm.activates # <<>> /\ wm' = [wm EXCEPT !.activates = Tail(@)]
  BY DEF TakeActivate
<1>2. StateOK(wm, {}) /\ Typed(wm) /\ IsState(wm)
  BY <1>1, Quiet DEF StateOK, Typed
<1>3. wm' = [window_list |-> wm.window_list, record |-> wm.record, updates |-> wm.updates,
             activates |-> Tail(wm.activates), screen |-> wm.screen, inverted |-> wm.inverted]
  BY <1>1, <1>2 DEF IsState
<1>4. /\ IsState(wm') /\ wm'.window_list = wm.window_list /\ wm'.record = wm.record
      /\ wm'.updates = wm.updates /\ wm'.activates = Tail(wm.activates)
      /\ wm'.screen = wm.screen /\ wm'.inverted = wm.inverted
  BY <1>3 DEF IsState
<1>5. Tail(wm.activates) \in Seq(Windows \cup {NULL})
  BY <1>1, <1>2, TailIsContained DEF Typed
<1>6. StateOK(wm', {})
  BY <1>2, <1>4, <1>5, QueuedIsOK DEF Typed
<1> QED
  BY <1>1, <1>4, <1>6, TrapKeepsInvariant, SameFront DEF Keeps

LEMMA TakeUpdateKeeps ==
  ASSUME Invariant, TakeUpdate
  PROVE  Keeps
<1>1. /\ dragged = {} /\ ~selecting /\ updating = {} /\ UNCHANGED <<dragged, menu>>
      /\ wm.updates # <<>>
  BY DEF TakeUpdate
<1>2. StateOK(wm, {}) /\ Typed(wm) /\ IsState(wm) /\ popup_menu = {} /\ wm.inverted = {}
  BY <1>1, Quiet DEF StateOK, Typed
<1>3. PICK w : w = wm.updates[1]
  OBVIOUS
<1>4. /\ w \in Windows /\ Tail(wm.updates) \in Seq(Windows)
      /\ \A u : Contains(wm.updates, u) => Contains(Tail(wm.updates), u) \/ u = w
  BY <1>1, <1>2, <1>3, TailIsContained DEF Typed
<1>5. PICK taken : taken = [wm EXCEPT !.updates = Tail(@)]
  OBVIOUS
<1>6. taken = [window_list |-> wm.window_list, record |-> wm.record,
               updates |-> Tail(wm.updates), activates |-> wm.activates,
               screen |-> wm.screen, inverted |-> wm.inverted]
  BY <1>2, <1>5 DEF IsState
<1>7. /\ IsState(taken) /\ taken.window_list = wm.window_list /\ taken.record = wm.record
      /\ taken.updates = Tail(wm.updates) /\ taken.activates = wm.activates
      /\ taken.screen = wm.screen /\ taken.inverted = wm.inverted
  BY <1>6 DEF IsState
<1>8. IF Listed(w) /\ w \notin Dialogs
      THEN /\ wm' = [taken EXCEPT !.record[w].clip = wm.record[w].update]
           /\ previous_clip_region' = wm.record[w].clip
           /\ updating' = {w}
      ELSE wm' = taken /\ UNCHANGED app
  BY <1>3, <1>5 DEF TakeUpdate
<1>9. CASE Listed(w) /\ w \notin Dialogs
  <2>1. StateOK(wm, {w})
    BY <1>2 DEF StateOK, DrawnOK
  <2>2. StateOK(taken, {w})
    BY <1>2, <1>4, <1>7, <2>1, QueuedIsOK DEF Typed
  <2>3. wm.record[w].update \subseteq RowsOf(w) /\ wm.record[w].clip \subseteq RowsOf(w)
    BY <1>2, <1>4 DEF Typed, RecordOK
  <2>4. /\ StateOK(wm', {w}) /\ wm'.window_list = wm.window_list /\ wm'.inverted = {}
        /\ wm'.record[w].clip = wm.record[w].update /\ wm'.record[w].update = wm.record[w].update
    <3>1. PICK clip \in SUBSET RowsOf(w) : clip = wm.record[w].update
      BY <2>3
    <3>2. wm' = [taken EXCEPT !.record[w].clip = clip]
      BY <1>8, <1>9, <3>1
    <3>3. /\ StateOK(wm', {w}) /\ wm'.window_list = taken.window_list
          /\ wm'.inverted = taken.inverted /\ wm'.record[w].clip = clip
          /\ wm'.record[w].update = taken.record[w].update
      <4>1. /\ StateOK([taken EXCEPT !.record[w].clip = clip], {w})
            /\ [taken EXCEPT !.record[w].clip = clip].window_list = taken.window_list
            /\ [taken EXCEPT !.record[w].clip = clip].inverted = taken.inverted
            /\ [taken EXCEPT !.record[w].clip = clip].record[w].clip = clip
            /\ [taken EXCEPT !.record[w].clip = clip].record[w].update = taken.record[w].update
        BY <1>4, <2>2, ClippedIsOK
      <4> QED
        BY <3>2, <4>1
    <3> QED
      BY <1>2, <1>7, <3>1, <3>3
  <2>5. /\ dragged' = {} /\ selecting' = selecting /\ updating' = {w} /\ popup_menu' = {}
        /\ previous_clip_region' = wm.record[w].clip
    BY <1>1, <1>2, <1>8, <1>9 DEF menu
  <2>6. AllClosed' = wm'
    BY <2>5 DEF AllClosed
  <2>7. MenuOK' /\ DragOK'
    BY <2>4, <2>5, <2>6 DEF Invariant, MenuOK, DragOK
  <2>8. UpdateOK'
    <3>1. Listed(w)'
      BY <1>9, <2>4 DEF Listed
    <3>2. previous_clip_region' \subseteq UNION {RowsOf(v) : v \in Windows}
      BY <1>4, <2>3, <2>5
    <3>3. w \in Windows \ Dialogs
      BY <1>4, <1>9
    <3>4. wm'.record[w].clip = wm'.record[w].update /\ previous_clip_region' \subseteq RowsOf(w)
      BY <2>3, <2>4, <2>5
    <3>5. ~selecting' /\ dragged' = {} /\ updating' = {w} /\ w \in updating'
      BY <1>1, <2>5
    <3> QED
      BY <3>1, <3>2, <3>3, <3>4, <3>5 DEF UpdateOK
  <2>9. Typed(wm') /\ StateOK(AllClosed', updating')
    BY <2>4, <2>5, <2>6 DEF StateOK
  <2> QED
    BY <2>4, <2>7, <2>8, <2>9, SameFront DEF Invariant, Keeps
<1>10. CASE ~(Listed(w) /\ w \notin Dialogs)
  <2>1. wm' = taken /\ UNCHANGED <<dragged, app, menu>>
    BY <1>1, <1>8, <1>10
  <2>2. \A v \in Windows : Contains(wm.updates, v) => Contains(taken.updates, v) \/ v \in Dialogs
                              \/ ~Contains(wm.window_list, v) \/ v \in {}
    BY <1>4, <1>7, <1>10 DEF Listed
  <2>3. StateOK(taken, {})
    BY <1>2, <1>4, <1>7, <2>2, QueuedIsOK DEF Typed
  <2>4. wm'.window_list = wm.window_list /\ wm'.inverted \subseteq wm.inverted /\ StateOK(wm', {})
    BY <1>7, <2>1, <2>3
  <2> QED
    BY <1>1, <2>1, <2>4, TrapKeepsInvariant, SameFront DEF Keeps
<1> QED
  BY <1>9, <1>10

LEMMA EndUpDateKeeps ==
  ASSUME Invariant, EndUpDate
  PROVE  Keeps
<1>1. PICK w \in updating : /\ updating = {w} /\ w \in Windows \ Dialogs /\ Listed(w)
                            /\ wm.record[w].clip = wm.record[w].update
                            /\ previous_clip_region \subseteq RowsOf(w)
  BY DEF Invariant, UpdateOK, EndUpDate
<1>0. /\ ~selecting /\ dragged = {} /\ updating' = {} /\ UNCHANGED <<dragged, menu>>
      /\ previous_clip_region' = previous_clip_region
  <2>1. UpdateOK /\ updating # {}
    BY <1>1 DEF Invariant
  <2>2. updating' = {} /\ UNCHANGED <<dragged, aborted, previous_clip_region, menu>>
    BY Zenon DEF EndUpDate
  <2> QED
    BY <2>1, <2>2 DEF UpdateOK
<1>2. wm' = [Paint(wm, wm.record[w].clip \cap wm.record[w].content, Drawn(w))
               EXCEPT !.record[w].clip = previous_clip_region]
  BY <1>1 DEF EndUpDate
<1>3. StateOK(wm, {w}) /\ IsState(wm) /\ popup_menu = {} /\ wm.inverted = {}
  BY <1>0, <1>1, Quiet DEF StateOK, Typed
<1>4. PICK rows : rows = wm.record[w].update \cap wm.record[w].content
  OBVIOUS
<1>5. PICK painted : painted = Paint(wm, rows, Drawn(w))
  OBVIOUS
<1>6. StateOK(painted, {})
  BY <1>1, <1>3, <1>4, <1>5, PaintedIsOK DEF Listed
<1>7. painted.window_list = wm.window_list /\ painted.inverted = {}
  <2>1. painted.window_list = wm.window_list /\ painted.inverted = wm.inverted \ rows
    <3>1. IsState(wm)
      BY <1>3
    <3>2. PICK shows : shows = Drawn(w)
      OBVIOUS
    <3>3. /\ IsState(Paint(wm, rows, shows))
          /\ Paint(wm, rows, shows).window_list = wm.window_list
          /\ Paint(wm, rows, shows).record = wm.record
          /\ Paint(wm, rows, shows).updates = wm.updates
          /\ Paint(wm, rows, shows).activates = wm.activates
          /\ Paint(wm, rows, shows).screen =
               [y \in Rows |-> IF y \in rows THEN shows ELSE wm.screen[y]]
          /\ Paint(wm, rows, shows).inverted = wm.inverted \ rows
      BY <3>1, PaintFields
    <3> QED
      BY <1>5, <3>2, <3>3
  <2> QED
    BY <1>3, <2>1
<1>8. wm' = [painted EXCEPT !.record[w].clip = previous_clip_region]
  BY <1>1, <1>2, <1>4, <1>5
<1>9. StateOK(wm', {}) /\ wm'.window_list = wm.window_list /\ wm'.inverted = {}
  BY <1>1, <1>6, <1>7, <1>8, ClippedIsOK
<1>10. /\ dragged' = {} /\ selecting' = selecting /\ popup_menu' = {}
       /\ previous_clip_region' = previous_clip_region
  BY <1>0, <1>3 DEF menu
<1>11. AllClosed' = wm'
  BY <1>10 DEF AllClosed
<1>12. MenuOK' /\ DragOK' /\ UpdateOK'
  <2>1. MenuOK'
    BY <1>0, <1>10 DEF Invariant, MenuOK
  <2>2. DragOK'
    BY <1>9, <1>10, <1>11 DEF DragOK
  <2>3. UpdateOK'
    BY <1>0, <1>10 DEF Invariant, UpdateOK
  <2> QED
    BY <2>1, <2>2, <2>3
<1>13. Typed(wm') /\ StateOK(AllClosed', updating')
  BY <1>0, <1>9, <1>11 DEF StateOK
<1> QED
  BY <1>9, <1>12, <1>13, SameFront DEF Invariant, Keeps

LEMMA NewWindowKeeps ==
  ASSUME Invariant, NEW w \in Windows, NEW top \in Tops, NEW flag \in BOOLEAN, NEW behind,
         NewWindowTrap(w, top, flag, behind)
  PROVE  Keeps
<1>1. /\ dragged = {} /\ ~selecting /\ updating = {} /\ UNCHANGED <<dragged, app, menu>>
      /\ ~Contains(wm.window_list, w)
      /\ wm' = QueueWindowUpdate(QueueWindowActivate(NewWindow(wm, w, top, flag, behind), w), w)
  BY DEF NewWindowTrap, Idle, Listed
<1>2. StateOK(wm, {})
  BY <1>1, Quiet
<1>3. Leads(wm, wm', {})
  BY <1>1, <1>2, NewWindowLeads
<1> QED
  BY <1>1, <1>3, LeadsKeeps

LEMMA SelectWindowKeeps ==
  ASSUME Invariant, NEW w \in Windows, SelectWindowTrap(w)
  PROVE  Keeps
<1>1. /\ dragged = {} /\ ~selecting /\ updating = {} /\ UNCHANGED <<dragged, app, menu>>
      /\ Contains(wm.window_list, w) /\ wm' = SelectWindow(wm, w)
  BY DEF SelectWindowTrap, Idle, Listed
<1>2. Leads(wm, wm', {})
  BY <1>1, Quiet, SelectLeads
<1> QED
  BY <1>1, <1>2, LeadsKeeps

LEMMA MoveWindowKeeps ==
  ASSUME Invariant, NEW w \in Windows, NEW top \in Tops, NEW front \in BOOLEAN,
         MoveWindowTrap(w, top, front)
  PROVE  Keeps
<1>1. /\ dragged = {} /\ ~selecting /\ updating = {} /\ UNCHANGED <<dragged, app, menu>>
      /\ Contains(wm.window_list, w) /\ (wm' = MoveWindow(wm, w, top, front) \/ UNCHANGED wm)
  BY DEF MoveWindowTrap, Idle, Listed, Trap
<1>2. CASE UNCHANGED wm
  BY <1>1, <1>2, UnchangedKeeps
<1>3. CASE wm' = MoveWindow(wm, w, top, front)
  <2>1. StateOK(wm, {})
    BY <1>1, Quiet
  <2>2. Leads(wm, wm', {})
    BY <1>1, <1>3, <2>1, MoveLeads
  <2> QED
    BY <1>1, <2>2, LeadsKeeps
<1> QED
  BY <1>1, <1>2, <1>3

LEMMA DisposeWindowKeeps ==
  ASSUME Invariant, NEW w \in Windows, DisposeWindowTrap(w)
  PROVE  Keeps
<1>1. /\ dragged = {} /\ ~selecting /\ updating = {} /\ UNCHANGED <<dragged, app, menu>>
      /\ Contains(wm.window_list, w)
  BY DEF DisposeWindowTrap, Idle, Listed
<1>2. StateOK(wm, {}) /\ Typed(wm) /\ IsState(wm) /\ ListOK(wm.window_list)
  BY <1>1, Quiet DEF StateOK, Typed
<1>3. PICK disposed : disposed = [wm EXCEPT !.window_list = Without(@, w)]
  OBVIOUS
<1>4. disposed.window_list = Without(wm.window_list, w)
  <2>1. disposed = [window_list |-> Without(wm.window_list, w), record |-> wm.record,
                    updates |-> wm.updates, activates |-> wm.activates,
                    screen |-> wm.screen, inverted |-> wm.inverted]
    BY <1>2, <1>3 DEF IsState
  <2> QED
    BY <2>1
<1>5. PICK front \in FrontWindows(disposed) :
        wm' = DisposeWindow(wm, w, front) \/ UNCHANGED wm
  BY <1>3 DEF DisposeWindowTrap, Trap
<1>6. front \in Windows \cup {NULL}
        /\ (Without(wm.window_list, w) # <<>> => front = Without(wm.window_list, w)[1])
  <2>1. PICK p \in 1..Len(wm.window_list) : wm.window_list[p] = w
    BY <1>1 DEF Contains
  <2>2. Without(wm.window_list, w) \in Seq(Windows)
    BY <1>2, <2>1, WithoutPlaces
  <2> QED
    BY <1>4, <1>5, <2>2 DEF FrontWindows
<1>7. CASE UNCHANGED wm
  BY <1>1, <1>7, UnchangedKeeps
<1>8. CASE wm' = DisposeWindow(wm, w, front)
  <2>1. Leads(wm, wm', {})
    BY <1>1, <1>2, <1>6, <1>8, DisposeLeads
  <2> QED
    BY <1>1, <2>1, LeadsKeeps
<1> QED
  BY <1>5, <1>7, <1>8

LEMMA InvalRectKeeps ==
  ASSUME Invariant, NEW w \in Windows, InvalRect(w)
  PROVE  Keeps
<1>1. /\ dragged = {} /\ ~selecting /\ updating = {} /\ UNCHANGED <<dragged, app, menu>>
      /\ wm' = QueueWindowUpdate(wm, w)
  BY DEF InvalRect, Idle
<1>2. StateOK(wm, {}) /\ Typed(wm) /\ IsState(wm)
  BY <1>1, Quiet DEF StateOK, Typed
<1>3. /\ IsState(wm') /\ wm'.window_list = wm.window_list /\ wm'.record = wm.record
      /\ wm'.updates = Append(wm.updates, w) /\ wm'.activates = wm.activates
      /\ wm'.screen = wm.screen /\ wm'.inverted = wm.inverted
  BY <1>1, <1>2, QueuedFields
<1>4. /\ wm'.updates \in Seq(Windows)
      /\ \A v : Contains(wm.updates, v) => Contains(wm'.updates, v)
  BY <1>2, <1>3, LastIsContained DEF Typed
<1>5. StateOK(wm', {})
  BY <1>2, <1>3, <1>4, QueuedIsOK DEF Typed
<1> QED
  BY <1>1, <1>3, <1>5, TrapKeepsInvariant, SameFront DEF Keeps

LEMMA GetNewDialogKeeps ==
  ASSUME Invariant, NEW w \in Windows, NEW top \in Tops, NEW flag \in BOOLEAN,
         GetNewDialogTrap(w, top, flag)
  PROVE  Keeps
<1>1. /\ dragged = {} /\ ~selecting /\ updating = {} /\ UNCHANGED <<dragged, app, menu>>
      /\ ~Contains(wm.window_list, w) /\ w \in Dialogs
      /\ wm' = GetNewDialog(wm, w, top, flag)
  BY DEF GetNewDialogTrap, Idle, Listed
<1>2. StateOK(wm, {})
  BY <1>1, Quiet
<1>3. Leads(wm, wm', {})
  BY <1>1, <1>2, DialogLeads
<1> QED
  BY <1>1, <1>3, LeadsKeeps

LEMMA ModalDialogKeeps ==
  ASSUME Invariant, ModalDialog
  PROVE  Keeps
<1>1. /\ dragged = {} /\ ~selecting /\ updating = {} /\ UNCHANGED <<dragged, app, menu>>
      /\ IF ModalDialogStops(wm)
         THEN aborted' = "Passed WindowRecord must be a dialogKind" /\ UNCHANGED wm
         ELSE wm' = Drained(wm) /\ UNCHANGED aborted
  BY Zenon DEF ModalDialog
<1>2. CASE UNCHANGED wm
  BY <1>1, <1>2, UnchangedKeeps
<1>3. CASE ~ModalDialogStops(wm) /\ wm' = Drained(wm)
  <2>1. StateOK(wm, {}) /\ \A i \in DOMAIN wm.updates : wm.updates[i] \in Dialogs
    BY <1>1, <1>3, Quiet DEF ModalDialogStops
  <2>2. StateOK(wm', {}) /\ wm'.window_list = wm.window_list /\ wm'.inverted \subseteq wm.inverted
    BY <1>3, <2>1, DrainedIsOK
  <2> QED
    BY <1>1, <2>2, TrapKeepsInvariant, SameFront DEF Keeps
<1> QED
  BY <1>1, <1>2, <1>3

LEMMA FindWindowKeeps ==
  ASSUME Invariant, NEW y \in Desktop, FindWindow(y)
  PROVE  Keeps
<1>1. wm' = wm /\ UNCHANGED <<dragged, app, menu>>
  BY DEF FindWindow, Trap
<1> QED
  BY <1>1, UnchangedKeeps

(* the drag of a window                                                     *)
LEMMA DragBeginKeeps ==
  ASSUME Invariant, NEW w \in Windows, DragWindowTrap(w)
  PROVE  Keeps
<1>1. /\ dragged = {} /\ ~selecting /\ updating = {} /\ Listed(w)
      /\ UNCHANGED <<app, menu>> /\ UNCHANGED wm
  BY DEF DragWindowTrap, Idle, DragBegin
<1>2. CASE UNCHANGED dragged
  BY <1>1, <1>2, UnchangedKeeps
<1>3. CASE ~UNCHANGED dragged
  <2>1. wm.record[w].structure # {} /\ dragged' = {[window |-> w, top |-> wm.record[w].top]}
    BY <1>3 DEF DragWindowTrap, DragBegin
  <2>2. popup_menu = {} /\ wm.inverted = {} /\ StateOK(wm, {})
    BY <1>1, Quiet
  <2>3. PICK o : o = [window |-> w, top |-> wm.record[w].top]
    OBVIOUS
  <2>4. wm.record[w].top \in Tops
    BY <2>2 DEF StateOK, Typed, RecordOK
  <2>5. /\ selecting' = selecting /\ updating' = {} /\ popup_menu' = {} /\ wm' = wm
        /\ previous_clip_region' = previous_clip_region
    BY <1>1, <2>2 DEF app, menu
  <2>6. OutlineOK(o)'
    BY <1>1, <2>1, <2>2, <2>3, <2>4, <2>5 DEF OutlineOK, Listed, SymmetricDifference
  <2>7. DragOK'
    BY <1>1, <2>1, <2>3, <2>5, <2>6 DEF DragOK
  <2>8. AllClosed' = wm'
    BY <2>5 DEF AllClosed
  <2>9. MenuOK' /\ UpdateOK'
    BY <2>5 DEF Invariant, MenuOK, UpdateOK
  <2>10. Typed(wm') /\ StateOK(AllClosed', updating')
    BY <2>2, <2>5, <2>8 DEF StateOK
  <2> QED
    BY <2>5, <2>7, <2>9, <2>10, SameFront DEF Invariant, Keeps
<1> QED
  BY <1>2, <1>3

LEMMA EdgesAreRows ==
  ASSUME NEW w \in Windows, NEW top \in Tops
  PROVE  Edges(w, top) \subseteq Desktop \cap StructureAt(w, top) /\ Edges(w, top) \subseteq Rows
<1>1. top \in Nat /\ top >= 2 /\ Height[w] \in Nat /\ Height[w] >= 1
  BY RowsAreNumbers
<1>2. {top - 1, top + Height[w]} \subseteq StructureAt(w, top)
  BY <1>1 DEF StructureAt
<1> QED
  BY <1>2 DEF Edges, Rows

(* exclusive-or changes nothing but the inversion                           *)
LEMMA XorIsOK ==
  ASSUME NEW d, NEW busy, StateOK(d, busy), NEW rows \in SUBSET Rows
  PROVE  /\ StateOK(Xor(d, rows), busy)
         /\ Xor(d, rows).window_list = d.window_list /\ Xor(d, rows).record = d.record
         /\ Xor(d, rows).inverted = SymmetricDifference(d.inverted, rows)
<1>1. Typed(d) /\ IsState(d)
  BY DEF StateOK, Typed
<1>2. PICK e : e = Xor(d, rows)
  OBVIOUS
<1>3. /\ IsState(e) /\ e.window_list = d.window_list /\ e.record = d.record
      /\ e.updates = d.updates /\ e.activates = d.activates /\ e.screen = d.screen
      /\ e.inverted = SymmetricDifference(d.inverted, rows)
  BY <1>1, <1>2, XorFields DEF SymmetricDifference
<1>4. e.inverted \subseteq Rows
  BY <1>1, <1>3 DEF Typed, SymmetricDifference
<1>5. StateOK(e, busy)
  BY <1>1, <1>3, <1>4, QueuedIsOK DEF Typed
<1> QED
  BY <1>2, <1>3, <1>5

LEMMA DragMoveKeeps ==
  ASSUME Invariant, NEW top \in Tops, DragMove(top), UNCHANGED <<app, menu>>
  PROVE  Keeps
<1>1. PICK o \in dragged : /\ wm' = Xor(Xor(wm, Edges(o.window, o.top)), Edges(o.window, top))
                           /\ dragged' = {[o EXCEPT !.top = top]}
  BY DEF DragMove
<1>2. ~selecting /\ updating = {} /\ OutlineOK(o)
  BY <1>1 DEF Invariant, DragOK
<1>3. StateOK(wm, {}) /\ popup_menu = {}
  BY <1>2, Quiet
<1>4. PICK before, now, there :
        /\ before = Edges(o.window, o.top) /\ now = Edges(o.window, top)
        /\ there = Edges(o.window, wm.record[o.window].top)
  OBVIOUS
<1>5. o.window \in Windows /\ o.top \in Tops /\ before \subseteq Rows /\ now \subseteq Rows
        /\ wm.inverted = SymmetricDifference(there, before)
  BY <1>2, <1>4, EdgesAreRows DEF OutlineOK
<1>6. PICK erased : erased = Xor(wm, before)
  OBVIOUS
<1>7. /\ StateOK(erased, {}) /\ erased.window_list = wm.window_list /\ erased.record = wm.record
      /\ erased.inverted = SymmetricDifference(wm.inverted, before)
  BY <1>3, <1>5, <1>6, XorIsOK
<1>8. wm' = Xor(erased, now)
  BY <1>1, <1>4, <1>6
<1>9. /\ StateOK(wm', {}) /\ wm'.window_list = wm.window_list /\ wm'.record = wm.record
      /\ wm'.inverted = SymmetricDifference(erased.inverted, now)
  BY <1>5, <1>7, <1>8, XorIsOK
<1>10. wm'.inverted = SymmetricDifference(there, now)
  BY <1>5, <1>7, <1>9 DEF SymmetricDifference
<1>11. PICK outline : outline = [o EXCEPT !.top = top]
  OBVIOUS
<1>12. outline = [window |-> o.window, top |-> top] /\ dragged' = {outline}
  BY <1>1, <1>2, <1>11 DEF OutlineOK
<1>13. /\ selecting' = selecting /\ updating' = {} /\ popup_menu' = {}
       /\ previous_clip_region' = previous_clip_region
  BY <1>2, <1>3 DEF app, menu
<1>14. OutlineOK(outline)'
  BY <1>2, <1>4, <1>9, <1>10, <1>12 DEF OutlineOK, Listed
<1>15. DragOK'
  BY <1>2, <1>12, <1>13, <1>14 DEF DragOK
<1>16. AllClosed' = wm'
  BY <1>13 DEF AllClosed
<1>17. MenuOK' /\ UpdateOK'
  BY <1>13 DEF Invariant, MenuOK, UpdateOK
<1>18. Typed(wm') /\ StateOK(AllClosed', updating')
  BY <1>9, <1>13, <1>16 DEF StateOK
<1> QED
  BY <1>9, <1>15, <1>17, <1>18, SameFront DEF Invariant, Keeps

LEMMA DragEndKeeps ==
  ASSUME Invariant, NEW top \in Tops, DragEnd(top), UNCHANGED <<app, menu>>
  PROVE  Keeps
<1>1. PICK o \in dragged : /\ wm' = MoveWindow(Xor(wm, Edges(o.window, o.top)), o.window, top, TRUE)
                           /\ dragged' = {}
  BY DEF DragEnd
<1>2. ~selecting /\ updating = {} /\ OutlineOK(o)
  BY <1>1 DEF Invariant, DragOK
<1>3. StateOK(wm, {}) /\ popup_menu = {}
  BY <1>2, Quiet
<1>4. PICK w \in Windows : w = o.window
  BY <1>2 DEF OutlineOK
<1>5. PICK before, there : before = Edges(w, o.top) /\ there = Edges(w, wm.record[w].top)
  OBVIOUS
<1>6. /\ o.top \in Tops /\ before \subseteq Rows /\ Listed(w) /\ wm.record[w].structure # {}
      /\ wm.inverted = SymmetricDifference(there, before) /\ wm.record[w].top \in Tops
  BY <1>2, <1>3, <1>4, <1>5, EdgesAreRows DEF OutlineOK, StateOK, Typed, RecordOK
<1>7. PICK erased : erased = Xor(wm, before)
  OBVIOUS
<1>8. /\ StateOK(erased, {}) /\ erased.window_list = wm.window_list /\ erased.record = wm.record
      /\ erased.inverted = SymmetricDifference(wm.inverted, before)
  BY <1>3, <1>6, <1>7, XorIsOK
<1>9. erased.inverted = there
  BY <1>6, <1>8 DEF SymmetricDifference
<1>10. there \subseteq Desktop \cap wm.record[w].structure
  <2>1. Placed(w, wm.record[w])
    BY <1>3 DEF StateOK, RegionsOK
  <2> QED
    BY <1>5, <1>6, <2>1, EdgesAreRows DEF Placed
<1>11. wm' = MoveWindow(erased, w, top, TRUE)
  BY <1>1, <1>4, <1>5, <1>7
<1>12. Leads(erased, wm', {}) /\ wm'.inverted \subseteq erased.inverted \ (Desktop \cap erased.record[w].structure)
  BY <1>6, <1>8, <1>11, MoveLeads DEF Listed
<1>13. StateOK(wm', {}) /\ wm'.inverted = {} /\ FrontToldOf(wm, wm')
  BY <1>8, <1>9, <1>10, <1>12 DEF Leads, FrontToldOf
<1>14. /\ selecting' = selecting /\ updating' = {} /\ popup_menu' = {}
       /\ previous_clip_region' = previous_clip_region
  BY <1>2, <1>3 DEF app, menu
<1>15. AllClosed' = wm'
  BY <1>14 DEF AllClosed
<1>16. MenuOK' /\ UpdateOK' /\ DragOK'
  BY <1>1, <1>13, <1>14, <1>15 DEF Invariant, MenuOK, UpdateOK, DragOK
<1>17. Typed(wm') /\ StateOK(AllClosed', updating')
  BY <1>13, <1>14, <1>15 DEF StateOK
<1> QED
  BY <1>13, <1>16, <1>17 DEF Invariant, Keeps

(* the menu                                                                 *)
LEMMA UpdateMenuBarKeeps ==
  ASSUME Invariant, dragged = {}, updating = {}, NEW mouse \in Mouse, UpdateMenuBar(mouse),
         selecting' = TRUE, UNCHANGED <<dragged, app>>
  PROVE  Keeps
<1>1. /\ dragged' = {} /\ updating' = {} /\ previous_clip_region' = previous_clip_region
  BY DEF app
<1>2. Typed(wm) /\ StateOK(AllClosed, {}) /\ Typed(AllClosed) /\ AllClosed.inverted = {}
  BY DEF Invariant, DragOK, StateOK
<1>3. AllClosed.window_list = wm.window_list
  <2>1. CASE popup_menu = {}
    BY <2>1 DEF AllClosed
  <2>2. CASE popup_menu # {}
    <3>1. PICK p : AllClosed = Close(wm, p)
      BY <2>2 DEF AllClosed
    <3> QED
      BY <1>2, <3>1, CloseFields DEF Typed
  <2> QED
    BY <2>1, <2>2
<1>4. Typed(wm') /\ MenuOK' /\ AllClosed' = AllClosed /\ wm'.window_list = wm.window_list
  <2>1. CASE /\ mouse \in Menus
             /\ wm' = Open(AllClosed, mouse)
             /\ popup_menu' = {Opened(AllClosed, mouse)}
    <3>1. /\ Typed(wm') /\ PopUpOK(Opened(AllClosed, mouse))
          /\ wm'.window_list = AllClosed.window_list
          /\ Close(wm', Opened(AllClosed, mouse)) = AllClosed
      BY <1>2, <2>1, OpenThenClose
    <3>2. PICK p : p = Opened(AllClosed, mouse)
      OBVIOUS
    <3>3. MenuOK'
      BY <2>1, <3>1, <3>2 DEF MenuOK
    <3>4. AllClosed' = Close(wm', p)
      BY <2>1, <3>2 DEF AllClosed
    <3> QED
      BY <1>3, <3>1, <3>2, <3>3, <3>4
  <2>2. CASE \E popup \in popup_menu :
               /\ wm' = Hover(wm, popup, mouse)
               /\ popup_menu' = {[popup EXCEPT !.hovered = Hovered(popup, mouse)]}
    <3>1. PICK p \in popup_menu :
            /\ wm' = Hover(wm, p, mouse)
            /\ popup_menu' = {[p EXCEPT !.hovered = Hovered(p, mouse)]}
      BY <2>2
    <3>2. popup_menu = {p} /\ PopUpOK(p)
      BY <3>1 DEF Invariant, MenuOK
    <3>3. PICK q : q = [p EXCEPT !.hovered = Hovered(p, mouse)]
      OBVIOUS
    <3>4. /\ Typed(wm') /\ PopUpOK(q) /\ wm'.window_list = wm.window_list
          /\ Close(wm', q) = Close(wm, p)
      BY <1>2, <3>1, <3>2, <3>3, HoverThenClose
    <3>5. AllClosed' = Close(wm', q) /\ AllClosed = Close(wm, p)
      BY <3>1, <3>2, <3>3 DEF AllClosed
    <3>6. MenuOK'
      BY <3>1, <3>3, <3>4 DEF MenuOK
    <3> QED
      BY <3>4, <3>5, <3>6
  <2>3. CASE popup_menu = {} /\ UNCHANGED <<wm, popup_menu>>
    BY <1>2, <2>3 DEF MenuOK, AllClosed
  <2> QED
    BY <2>1, <2>2, <2>3 DEF UpdateMenuBar
<1>5. DragOK' /\ UpdateOK'
  BY <1>1, <1>2, <1>4 DEF Invariant, DragOK, UpdateOK
<1>6. StateOK(AllClosed', updating')
  BY <1>1, <1>2, <1>4
<1> QED
  BY <1>4, <1>5, <1>6, SameFront DEF Invariant, Keeps

LEMMA MenuMouseUpKeeps ==
  ASSUME Invariant, NEW mouse \in Mouse, MenuMouseUp(mouse), UNCHANGED <<dragged, app>>
  PROVE  Keeps
<1>1. selecting /\ ~selecting' /\ selecting' \in BOOLEAN /\ popup_menu' = {}
  BY DEF MenuMouseUp
<1>2. dragged = {} /\ updating = {}
  BY <1>1 DEF Invariant, DragOK, UpdateOK
<1>3. /\ dragged' = {} /\ updating' = {} /\ previous_clip_region' = previous_clip_region
  BY <1>2 DEF app
<1>4. Typed(wm) /\ StateOK(AllClosed, {}) /\ Typed(AllClosed) /\ AllClosed.inverted = {}
  BY <1>2 DEF Invariant, DragOK, StateOK
<1>5. wm' = AllClosed /\ wm'.window_list = wm.window_list
  <2>1. CASE popup_menu = {} /\ UNCHANGED wm
    BY <2>1 DEF AllClosed
  <2>2. CASE \E popup \in popup_menu :
               wm' = Close(Hover(wm, popup, mouse),
                           [popup EXCEPT !.hovered = Hovered(popup, mouse)])
    <3>1. PICK p \in popup_menu :
            wm' = Close(Hover(wm, p, mouse), [p EXCEPT !.hovered = Hovered(p, mouse)])
      BY <2>2
    <3>2. popup_menu = {p} /\ PopUpOK(p)
      BY <3>1 DEF Invariant, MenuOK
    <3>3. wm' = Close(wm, p)
      BY <1>4, <3>1, <3>2, HoverThenClose
    <3>4. AllClosed = Close(wm, p)
      BY <3>2 DEF AllClosed
    <3>5. Close(wm, p).window_list = wm.window_list
      BY <1>4, CloseFields DEF Typed
    <3> QED
      BY <3>3, <3>4, <3>5
  <2> QED
    BY <2>1, <2>2 DEF MenuMouseUp
<1>6. AllClosed' = wm'
  BY <1>1 DEF AllClosed
<1>7. MenuOK' /\ DragOK' /\ UpdateOK'
  BY <1>1, <1>3, <1>4, <1>5, <1>6 DEF Invariant, MenuOK, DragOK, UpdateOK
<1>8. Typed(wm') /\ StateOK(AllClosed', updating')
  BY <1>3, <1>4, <1>5, <1>6
<1> QED
  BY <1>5, <1>7, <1>8, SameFront DEF Invariant, Keeps
-----------------------------------------------------------------------------
(* The theorems                                                             *)

LEMMA InitInvariant ==
  ASSUME Init
  PROVE  Invariant
<1>1. PICK top \in Tops : top = CHOOSE t \in Tops : TRUE
  BY WindowAssumption, Zenon
<1>2. wm = [window_list |-> <<>>, record |-> [w \in Windows |-> NewWindowRecord(w, top)],
            updates |-> <<>>, activates |-> <<>>,
            screen |-> [y \in Rows |-> IF y \in MenuBar THEN MenuBarRow ELSE DesktopRow],
            inverted |-> {}]
  BY <1>1 DEF Init, WindowManagerInit
<1>3. /\ IsState(wm) /\ wm.window_list = <<>> /\ wm.updates = <<>> /\ wm.activates = <<>>
      /\ wm.inverted = {} /\ wm.record = [w \in Windows |-> NewWindowRecord(w, top)]
      /\ wm.screen = [y \in Rows |-> IF y \in MenuBar THEN MenuBarRow ELSE DesktopRow]
  BY <1>2 DEF IsState
<1>4. /\ popup_menu = {} /\ selecting = FALSE /\ updating = {} /\ previous_clip_region = {}
      /\ dragged = {}
  BY DEF Init, WindowManagerInit, MenuManagerInit
<1>5. ASSUME NEW w \in Windows
      PROVE  /\ RecordOK(w, wm.record[w]) /\ wm.record[w].hilited \in {0, 1}
             /\ Placed(w, wm.record[w]) /\ wm.record[w].visible = wm.record[w].update
  <2>1. wm.record[w] = NewWindowRecord(w, top)
    BY <1>3
  <2> QED
    BY <2>1, NewRecord DEF Placed
<1>6. Places(wm) = {}
  BY <1>3 DEF Places
<1>7. Typed(wm)
  <2>1. MenuBarRow \in Row /\ DesktopRow \in Row
    BY DEF MenuBarRow, DesktopRow, Row
  <2>2. wm.screen \in [Rows -> Row]
    BY <1>3, <2>1
  <2>3. ListOK(wm.window_list)
    BY <1>3 DEF ListOK
  <2>4. wm.record = [w \in Windows |-> wm.record[w]]
    BY <1>3
  <2>5. wm.updates \in Seq(Windows) /\ wm.activates \in Seq(Windows \cup {NULL})
    BY <1>3
  <2> QED
    BY <1>3, <1>5, <2>2, <2>3, <2>4, <2>5 DEF Typed
<1>8. RegionsOK(wm) /\ DrawnOK(wm, updating) /\ ActiveOK(wm)
  BY <1>5, <1>6 DEF RegionsOK, DrawnOK, ActiveOK
<1>9. ScreenOK(wm)
  <2>1. \A y \in Rows : wm.screen[y] = IF y = 0 THEN MenuBarRow ELSE DesktopRow
    BY <1>3 DEF MenuBar
  <2> QED
    BY <1>6, <2>1 DEF ScreenOK
<1>10. AllClosed = wm
  BY <1>4 DEF AllClosed
<1>11. MenuOK /\ DragOK /\ UpdateOK
  BY <1>3, <1>4, <1>10 DEF MenuOK, DragOK, UpdateOK
<1> QED
  BY <1>5, <1>7, <1>8, <1>9, <1>10, <1>11 DEF Invariant, StateOK

LEMMA NextKeeps ==
  ASSUME Invariant, [Next]_vars
  PROVE  Keeps
<1>1. CASE TakeActivate
  BY <1>1, TakeActivateKeeps
<1>2. CASE TakeUpdate
  BY <1>2, TakeUpdateKeeps
<1>3. CASE EndUpDate
  BY <1>3, EndUpDateKeeps
<1>4. ASSUME NEW w \in Windows, NEW top \in Tops, NEW flag \in BOOLEAN,
             NEW behind \in {NULL} \cup (Windows \ {w}), NewWindowTrap(w, top, flag, behind)
      PROVE  Keeps
  BY <1>4, NewWindowKeeps
<1>5. ASSUME NEW w \in Windows, NEW top \in Tops, NEW flag \in BOOLEAN,
             MoveWindowTrap(w, top, flag) \/ GetNewDialogTrap(w, top, flag)
      PROVE  Keeps
  BY <1>5, MoveWindowKeeps, GetNewDialogKeeps
<1>6. ASSUME NEW w \in Windows,
             SelectWindowTrap(w) \/ DisposeWindowTrap(w) \/ InvalRect(w) \/ DragWindowTrap(w)
      PROVE  Keeps
  BY <1>6, SelectWindowKeeps, DisposeWindowKeeps, InvalRectKeeps, DragBeginKeeps
<1>7. CASE ModalDialog
  BY <1>7, ModalDialogKeeps
<1>8. ASSUME NEW top \in Tops, DragMove(top) \/ DragEnd(top), UNCHANGED <<aborted, app, menu>>
      PROVE  Keeps
  BY <1>8, DragMoveKeeps, DragEndKeeps
<1>9. ASSUME NEW mouse \in Mouse, Idle, MenuSelect(mouse), UNCHANGED <<dragged, aborted, app>>
      PROVE  Keeps
  BY <1>9, UpdateMenuBarKeeps DEF Idle, MenuSelect
<1>10. ASSUME NEW mouse \in Mouse, MenuMouseMove(mouse), UNCHANGED <<dragged, aborted, app>>
       PROVE  Keeps
  <2>1. selecting /\ selecting' = TRUE /\ UpdateMenuBar(mouse) /\ UNCHANGED <<dragged, app>>
    BY <1>10 DEF MenuMouseMove, Invariant, MenuOK
  <2>2. dragged = {} /\ updating = {}
    BY <2>1 DEF Invariant, DragOK, UpdateOK
  <2> QED
    BY <2>1, <2>2, UpdateMenuBarKeeps
<1>11. ASSUME NEW mouse \in Mouse, MenuMouseUp(mouse), UNCHANGED <<dragged, aborted, app>>
       PROVE  Keeps
  BY <1>11, MenuMouseUpKeeps
<1>12. ASSUME NEW y \in Desktop, FindWindow(y)
       PROVE  Keeps
  BY <1>12, FindWindowKeeps
<1>13. CASE UNCHANGED vars
  BY <1>13, UnchangedKeeps DEF vars, app, menu
<1> QED
  BY <1>1, <1>2, <1>3, <1>4, <1>5, <1>6, <1>7, <1>8, <1>9, <1>10, <1>11, <1>12, <1>13, Zenon
  DEF Next

(* Once the menu is closed the regions, what the screen shows, what is to   *)
(* be drawn and which window is active agree with the list of windows, and  *)
(* the traps that follow the mouse can be finished.                         *)
THEOREM WindowsAreInOrder == Spec => []Invariant
<1>1. Init => Invariant
  BY InitInvariant
<1>2. Invariant /\ [Next]_vars => Invariant'
  BY NextKeeps DEF Keeps
<1> QED
  BY <1>1, <1>2, PTL DEF Spec

(* Exclusive-or drawing is undone: after a drag or a menu nothing of the    *)
(* screen is left inverted.                                                 *)
THEOREM InversionsAreUndone == Spec => []NothingStaysInverted
<1>1. Invariant => NothingStaysInverted
  BY Quiet DEF NothingStaysInverted
<1> QED
  BY <1>1, WindowsAreInOrder, PTL

LEMMA ForemostIsFirst ==
  ASSUME Typed(wm), NEW y
  PROVE  /\ Uncovered(wm, y) => Foremost(y) = NULL
         /\ \A i \in Places(wm) : First(wm, i, y) => Foremost(y) = wm.window_list[i]
         /\ \A i \in Places(wm) : Foremost(y) = wm.window_list[i] => First(wm, i, y)
<1> DEFINE over == {i \in DOMAIN wm.window_list : y \in wm.record[wm.window_list[i]].structure}
<1>1. \A i : i \in over <=> i \in Places(wm) /\ Has(wm, i, y)
  BY PlacesAreListed DEF Has, RecordAt
<1>2. Foremost(y) = IF over = {} THEN NULL
                    ELSE wm.window_list[CHOOSE i \in over : \A j \in over : i <= j]
  BY DEF Foremost
<1> HIDE DEF over
<1>3. Uncovered(wm, y) => Foremost(y) = NULL
  BY <1>1, <1>2 DEF Uncovered
<1>4. ASSUME NEW i \in Places(wm), First(wm, i, y)
      PROVE  Foremost(y) = wm.window_list[i]
  <2>1. i \in over
    BY <1>1, <1>4 DEF First
  <2>2. ASSUME NEW j \in over
        PROVE  i <= j /\ (j <= i => j = i)
    <3>1. j \in Places(wm) /\ Has(wm, j, y)
      BY <1>1
    <3>2. i \in Nat /\ j \in Nat /\ i >= 1 /\ j >= 1
      BY <3>1, PlacesAreListed DEF Places
    <3>3. ~(j < i)
      BY <1>4, <3>1, <3>2 DEF First
    <3> QED
      BY <3>2, <3>3
  <2>3. (CHOOSE k \in over : \A j \in over : k <= j) = i
    BY <2>1, <2>2, Zenon
  <2> QED
    BY <1>2, <2>1, <2>3
<1>5. ASSUME NEW i \in Places(wm), Foremost(y) = wm.window_list[i]
      PROVE  First(wm, i, y)
  <2>1. wm.window_list[i] # NULL
    BY PlacesAreListed, RowsAreNumbers
  <2>2. PICK k \in Places(wm) : First(wm, k, y)
    BY <1>3, <1>5, <2>1, FirstExists
  <2>3. wm.window_list[i] = wm.window_list[k]
    BY <1>4, <1>5, <2>2
  <2> QED
    BY <2>2, <2>3, PlacesAreListed
<1> QED
  BY <1>3, <1>4, <1>5

(* Every row of the screen shows the foremost window that has it, and the   *)
(* desktop where there is none.                                             *)
THEOREM NoGhostsAppear == Spec => []NoGhosts
<1>1. ASSUME Invariant
      PROVE  NoGhosts
  <2> SUFFICES ASSUME ~selecting, NEW y \in Rows, ~ByADialog(y)
               PROVE  IF y \in MenuBar THEN wm.screen[y] = MenuBarRow
                      ELSE /\ wm.screen[y].of = Foremost(y)
                           /\ Foremost(y) = NULL => wm.screen[y] = DesktopRow
    BY DEF NoGhosts
  <2>1. Typed(wm) /\ ScreenOK(wm)
    BY <1>1, Quiet DEF StateOK
  <2>2. ~ByDialog(wm, y)
    BY DEF ByADialog, ByDialog
  <2>3. IF y = 0 THEN wm.screen[y] = MenuBarRow
        ELSE /\ Uncovered(wm, y) => wm.screen[y] = DesktopRow
             /\ \A i \in Places(wm) : First(wm, i, y) => wm.screen[y].of = wm.window_list[i]
    BY <2>1, <2>2, Zenon DEF ScreenOK
  <2>4. CASE y = 0
    BY <2>3, <2>4 DEF MenuBar
  <2>5. CASE y # 0 /\ Uncovered(wm, y)
    BY <2>1, <2>3, <2>5, ForemostIsFirst DEF MenuBar, DesktopRow
  <2>6. CASE y # 0 /\ \E i \in Places(wm) : First(wm, i, y)
    <3>1. PICK i \in Places(wm) : First(wm, i, y)
      BY <2>6
    <3>2. Foremost(y) = wm.window_list[i] /\ wm.window_list[i] # NULL
      BY <2>1, <3>1, ForemostIsFirst, PlacesAreListed, RowsAreNumbers
    <3> QED
      BY <2>3, <2>6, <3>1, <3>2 DEF MenuBar
  <2> QED
    BY <2>1, <2>4, <2>5, <2>6, FirstExists
<1> QED
  BY <1>1, WindowsAreInOrder, PTL

(* When no update event is left for a window, all of it that can be seen    *)
(* has been drawn.                                                          *)
THEOREM NothingStaysErased == Spec => []DrawnWhenQuiet
<1>1. ASSUME Invariant
      PROVE  DrawnWhenQuiet
  <2> SUFFICES ASSUME ~selecting, NEW w \in Windows \ Dialogs, Listed(w), w \notin updating,
                      ~Contains(wm.updates, w), NEW y \in Rows, y \in wm.record[w].content,
                      Foremost(y) = w
               PROVE  wm.screen[y] = Drawn(w) \/ ByADialog(y)
    BY DEF DrawnWhenQuiet
  <2>1. Typed(wm) /\ DrawnOK(wm, updating)
    BY <1>1, Quiet DEF StateOK
  <2>2. PICK i \in Places(wm) : wm.window_list[i] = w
    BY <2>1, PlacesAreListed DEF Listed
  <2>3. First(wm, i, y)
    BY <2>1, <2>2, ForemostIsFirst
  <2>4. y \in RecordAt(wm, i).content
    BY <2>2 DEF RecordAt
  <2> QED
    BY <2>1, <2>2, <2>3, <2>4 DEF DrawnOK, ByADialog, ByDialog
<1> QED
  BY <1>1, WindowsAreInOrder, PTL

(* Wherever FindWindow answers it names the window the user sees where a    *)
(* click falls; and each variable is in its type.                           *)
THEOREM ClicksGoWhereTheyPoint == Spec => []ClicksGoWhereTheyShould
<1>1. ASSUME Invariant
      PROVE  ToolboxTypeOK
  <2>1. Typed(wm) /\ StateOK(AllClosed, updating) /\ UpdateOK /\ MenuOK
    BY <1>1 DEF Invariant
  <2>2. \A w \in Windows : wm.record[w].hilited \in {0, 1}
    <3>1. CASE popup_menu = {}
      BY <2>1, <3>1 DEF AllClosed, StateOK
    <3>2. CASE popup_menu # {}
      <4>1. PICK p : AllClosed = Close(wm, p)
        BY <3>2 DEF AllClosed
      <4>2. AllClosed.record = wm.record
        BY <2>1, <4>1, CloseFields DEF Typed
      <4> QED
        BY <2>1, <4>2 DEF StateOK
    <3> QED
      BY <3>1, <3>2
  <2>3. wm.window_list \in Seq(Windows) /\ IsInjective(wm.window_list)
    BY <2>1, PlacesAreListed DEF Typed, ListOK, IsInjective, Places
  <2>4. \A w \in Windows : /\ wm.record[w].top \in Tops
                           /\ \A f \in {"structure", "content", "visible", "clip", "update"} :
                                wm.record[w][f] \subseteq RowsOf(w)
    BY <2>1 DEF Typed, RecordOK
  <2>5. updating \subseteq Windows
    BY <2>1 DEF UpdateOK
  <2>6. \A popup \in popup_menu : popup.hovered \subseteq PopUpRows(popup.menu)
    BY <2>1 DEF MenuOK, PopUpOK
  <2>7. \A y \in Rows : wm.screen[y] \in Row
    BY <2>1 DEF Typed
  <2> QED
    BY <2>1, <2>2, <2>3, <2>4, <2>5, <2>6, <2>7 DEF ToolboxTypeOK, Typed, UpdateOK
<1>2. ASSUME Invariant
      PROVE  ClicksHitWhatIsShown
  <2> SUFFICES ASSUME ~selecting, NEW w \in Windows, Listed(w), NEW y \in HitBy(w) \cap Rows,
                      wm.screen[y].of = w, ~ByADialog(y), Answers(y)
               PROVE  GetWindowAt(y) = w
    BY DEF ClicksHitWhatIsShown
  <2>1. Typed(wm) /\ ScreenOK(wm) /\ RegionsOK(wm)
    BY <1>2, Quiet DEF StateOK
  <2>2. ASSUME NEW v \in Windows
        PROVE  HitBy(v) \subseteq wm.record[v].structure
    <3>1. Placed(v, wm.record[v]) /\ wm.record[v].top \in Tops
      BY <2>1 DEF RegionsOK, Typed, RecordOK
    <3>2. wm.record[v].content \subseteq wm.record[v].structure
      BY <3>1, WhereWindowsAre DEF Placed
    <3> QED
      BY <3>2 DEF HitBy, TitleOf
  <2>3. PICK i \in Places(wm) : wm.window_list[i] = w
    <3>1. Typed(wm) /\ Contains(wm.window_list, w)
      BY <2>1 DEF Listed
    <3> QED
      BY <3>1, PlacesAreListed
  <2>4. Has(wm, i, y)
    BY <2>2, <2>3 DEF Has, RecordAt
  <2>5. y # 0
    <3>1. Placed(w, wm.record[w]) /\ wm.record[w].top \in Tops /\ y \in wm.record[w].structure
      BY <2>1, <2>2 DEF RegionsOK, Typed, RecordOK
    <3> QED
      BY <3>1, WhereWindowsAre DEF Placed
  <2>6. PICK k \in Places(wm) : First(wm, k, y)
    BY <2>1, <2>4, FirstExists DEF Uncovered
  <2>7. wm.screen[y].of = wm.window_list[k]
    <3>1. ~ByDialog(wm, y)
      BY DEF ByADialog, ByDialog
    <3> QED
      BY <2>1, <2>5, <2>6, <3>1 DEF ScreenOK
  <2>8. First(wm, i, y)
    BY <2>1, <2>3, <2>6, <2>7, PlacesAreListed
  <2> DEFINE hit == {j \in DOMAIN wm.window_list : y \in HitBy(wm.window_list[j])}
  <2>9. i \in hit
    BY <2>1, <2>3, PlacesAreListed
  <2>10. ASSUME NEW j \in hit
         PROVE  i <= j /\ (j <= i => j = i)
    <3>1. j \in Places(wm) /\ Has(wm, j, y)
      BY <2>1, <2>2, PlacesAreListed DEF Has, RecordAt
    <3>2. i \in Nat /\ j \in Nat /\ i >= 1 /\ j >= 1
      BY <2>1, <3>1, PlacesAreListed DEF Places
    <3>3. ~(j < i)
      BY <2>8, <3>1, <3>2 DEF First
    <3> QED
      BY <3>2, <3>3
  <2>11. GetWindowAt(y) = IF hit = {} THEN NULL
                          ELSE wm.window_list[CHOOSE k_1 \in hit : \A j \in hit : k_1 <= j]
    BY DEF GetWindowAt
  <2> HIDE DEF hit
  <2>12. (CHOOSE k_1 \in hit : \A j \in hit : k_1 <= j) = i
    BY <2>9, <2>10, Zenon
  <2> QED
    BY <2>3, <2>9, <2>11, <2>12
<1>3. Invariant => ClicksGoWhereTheyShould
  BY <1>1, <1>2 DEF ClicksGoWhereTheyShould
<1> QED
  BY <1>3, WindowsAreInOrder, PTL

(* One window at most is drawn as the active one, with only dialogs before  *)
(* it; and when another window comes to the front the application is told.  *)
THEOREM TheActiveWindowIsTheFrontOne == Spec => TheFrontWindowIsActive
<1>1. ASSUME Invariant
      PROVE  TheActiveWindowIsInFront
  <2>1. Typed(wm) /\ StateOK(AllClosed, updating)
    BY <1>1 DEF Invariant
  <2>2. AllClosed.record = wm.record /\ AllClosed.window_list = wm.window_list
    <3>1. CASE popup_menu = {}
      BY <3>1 DEF AllClosed
    <3>2. CASE popup_menu # {}
      <4>1. PICK p : AllClosed = Close(wm, p)
        BY <3>2 DEF AllClosed
      <4> QED
        BY <2>1, <4>1, CloseFields DEF Typed
    <3> QED
      BY <3>1, <3>2
  <2>3. ActiveOK(wm) /\ \A w \in Windows : wm.record[w].hilited \in {0, 1}
    BY <2>1, <2>2 DEF StateOK, ActiveOK, Places, RecordAt
  <2> SUFFICES ASSUME NEW i \in DOMAIN wm.window_list, NEW j \in DOMAIN wm.window_list,
                      wm.record[wm.window_list[j]].hilited = 1, i # j
               PROVE  /\ wm.record[wm.window_list[i]].hilited = 0
                      /\ i < j => wm.window_list[i] \in Dialogs
    BY Zenon DEF TheActiveWindowIsInFront
  <2>4. i \in Places(wm) /\ j \in Places(wm) /\ wm.window_list[i] \in Windows
    BY <2>1, PlacesAreListed
  <2>5. WrittenBack(RecordAt(wm, j).hilited) = 1
    BY HilitedByte DEF RecordAt
  <2>6. WrittenBack(RecordAt(wm, i).hilited) = 0 /\ (i < j => wm.window_list[i] \in Dialogs)
    BY <2>3, <2>4, <2>5, Zenon DEF ActiveOK
  <2>7. RecordAt(wm, i).hilited \in {0, 1}
    BY <2>3, <2>4 DEF RecordAt
  <2> QED
    BY <2>6, <2>7, HilitedByte DEF RecordAt
<1>2. ASSUME Invariant, [Next]_vars
      PROVE  LET front == GetFrontWindow(wm)'
             IN front # GetFrontWindow(wm) /\ front # NULL /\ ~(front \in Dialogs /\ ~Listed(front))
                  => Contains(wm.activates', front)
  <2>1. FrontToldOf(wm, wm')
    BY <1>2, NextKeeps DEF Keeps
  <2> QED
    BY <2>1 DEF FrontToldOf, GetFrontWindow, Listed
<1>3. Invariant /\ [Next]_vars =>
        [LET front == GetFrontWindow(wm)'
         IN front # GetFrontWindow(wm) /\ front # NULL /\ ~(front \in Dialogs /\ ~Listed(front))
              => Contains(wm.activates', front)]_vars
  BY <1>2
<1>4. Invariant => TheActiveWindowIsInFront
  BY <1>1
<1> QED
  BY <1>3, <1>4, WindowsAreInOrder, PTL DEF Spec, TheFrontWindowIsActive, TheFrontWindowIsActivated
=============================================================================
