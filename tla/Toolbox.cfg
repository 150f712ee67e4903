CONSTANTS
  w1 = w1 w2 = w2 dialog = dialog m1 = m1 m2 = m2 NULL = NULL
  Windows = {w1, w2, dialog}
  Dialogs = {dialog}
  Plain = {dialog}
  Height <- MCHeight
  Tops <- MCTops
  Bottom = 4
  Menus = {m1, m2}
  Items <- MCItems
  Enabled <- MCEnabled
  Backlog = 1
SPECIFICATION Spec
CHECK_DEADLOCK FALSE
INVARIANTS
  NoGhosts
  DrawnWhenQuiet
  NothingStaysInverted
  ClicksGoWhereTheyShould
PROPERTIES
  TheFrontWindowIsActive
