------------------------------- MODULE Menus -------------------------------
(***************************************************************************)
(* The bookmark menu and the git menu.  Both keep a list of commands, show *)
(* the part of it that passes the remote's tab, the category and the typed *)
(* text, and run the one under the cursor or behind a shortcut.  The       *)
(* bookmark menu fills its list from two commands that end in any order;   *)
(* the git menu rebuilds its list whenever the remote changes.             *)
(***************************************************************************)
EXTENDS Bookmarks, TLC

CONSTANTS MenuBookmarks,   \* what `jj bookmark list` may say: sequences of lines
          MenuMovables,    \* what its movable part may say: sequences of movable lines
          MenuRemotes,     \* what `jj git remote list` may say
          RemotePrefixes,  \* pairs <<a, b>>: the name of remote a begins that of b
          ConflictedNames, \* bookmarks in conflict
          MainNames,       \* the bookmarks called main or master
          MenuContext,     \* the current commit and the commits of the list
          GitSelections,   \* for the git menu: sequences of revisions, each a sequence of bookmarks' lines
          MenuTexts,       \* what can be typed into the filter
          MaxMenuRuns      \* bound: commands run before the menu is closed

NoRemote == -2
Categories == {"move", "delete", "track", "untrack", "forget", "push", "fetch"}

\* A typed text: nothing, a word of the command or the name of a bookmark.
NoText == [word |-> "", name |-> 0]

\* kind: the command; what: which form of it; at: the remote in the item's text;
\* to: the remote the command is given.
Item(kind, what, names, at, to, dist, key) ==
  [kind |-> kind, what |-> what, names |-> names, at |-> at, to |-> to, dist |-> dist, key |-> key]

VARIABLES menu,            \* the menu that is open
          menuLoads,       \* loads of the bookmark menu that have not answered
          menuRan          \* the items whose command was run

menuVars == <<menu, menuLoads, menuRan>>

-----------------------------------------------------------------------------
\* The lists of commands

priority(kind) ==
  CASE kind = "move" -> 0 [] kind = "delete" -> 1 [] kind = "track" -> 2 [] kind = "untrack" -> 3 [] OTHER -> 4

TheName(item) == CHOOSE n \in item.names : TRUE

\* The texts of two items of a kind, in order: "move conflicted" comes after "move" and a
\* quoted name, and "backwards" stands behind the name.
nameBefore(a, b) ==
  IF (a.what = "conflicted") /= (b.what = "conflicted") THEN b.what = "conflicted"
  ELSE \/ TheName(a) < TheName(b)
       \/ /\ TheName(a) = TheName(b)
          /\ (a.what = "backwards" /\ b.what = "") \/ (a.what = b.what /\ a.at < b.at)

itemSorter(a, b) ==
  IF a.kind /= b.kind THEN priority(a.kind) < priority(b.kind)
  ELSE IF a.dist = b.dist THEN nameBefore(a, b) ELSE compareDistance(a.dist, b.dist) < 0

Movable(name, commit, conflict, backwards) ==
  [name |-> name, commit |-> commit, conflict |-> conflict, backwards |-> backwards]

loadMovables(lines) ==
  LET moves == SelectSeq(lines, LAMBDA l : l.conflict \/ l.commit /= MenuContext.current)
      MoveItem(l) == Item("move", IF l.backwards THEN "backwards" ELSE IF l.conflict THEN "conflicted" ELSE "",
                          {l.name}, LocalRemote, LocalRemote, bookmarkDistance(MenuContext, l.commit),
                          IF l.name \in MainNames THEN "m" ELSE "")
  IN  [i \in DOMAIN moves |-> MoveItem(moves[i])]

defaultTrackRemote(remotes) == IF Len(remotes) > 1 THEN remotes[2] ELSE Origin

remoteItem(b, side, dist) ==
  LET command == BookmarkUntrackRemoteCommand(b, side) \cup BookmarkTrackRemoteCommand(b, side)
      kind == (CHOOSE c \in command : TRUE)[1]
  IN  Item(kind, "", {b.name}, side.remote, side.remote, dist, "")

bookmarkItems(b, remotes) ==
  LET dist == bookmarkDistance(MenuContext, LocalCommit(b))
      Local(kind, to, shown) == IF shown THEN <<Item(kind, "", {b.name}, LocalRemote, to, dist, "")>> ELSE <<>>
  IN  Local("delete", LocalRemote, BookmarkDeleteCommand(b) /= {})
      \o Local("forget", LocalRemote, TRUE)
      \o Local("track", defaultTrackRemote(remotes), IsTrackable(b))
      \o [i \in DOMAIN b.remotes |-> remoteItem(b, b.remotes[i], dist)]

loadAll(lines, remotes) ==
  LET bookmarks == ParseBookmarkListOutput(lines)
  IN  FlattenSeq([i \in DOMAIN bookmarks |-> bookmarkItems(bookmarks[i], remotes)])

HasTrackedRemote(b, remote) == \E i \in DOMAIN b.remotes : b.remotes[i].remote = remote /\ b.remotes[i].tracked

changeItemKey(revisions) == IF Len(revisions) > 1 THEN "" ELSE "c"

\* The git menu; remote is the selected one.
createMenuItems(revisions, remote) ==
  LET bookmarks == FlattenSeq([i \in DOMAIN revisions |-> ParseBookmarkListOutput(revisions[i])])
      pushed == SelectSeq(bookmarks, LAMBDA b : b.name \notin ConflictedNames)
      selected == {b.name : b \in {b \in ToSet(pushed) :
                       HasLocal(b) /\ (b.remotes = <<>> \/ HasTrackedRemote(b, remote))}}
      ToRemote(b) == [i \in DOMAIN b.remotes |->
                        Item("push", "bookmark", {b.name}, b.remotes[i].remote, b.remotes[i].remote, 0, "")]
      To(kind, what, names, key) == Item(kind, what, names, remote, remote, 0, key)
  IN  FlattenSeq([i \in DOMAIN pushed |-> ToRemote(pushed[i])])
      \o <<To("push", "", {}, "p"), To("push", "all", {}, "a")>>
      \o (IF Len(revisions) > 1 THEN <<To("push", "changes", {}, "c")>> ELSE <<>>)
      \o (IF selected /= {} THEN <<To("push", "bookmarks", selected, "b")>> ELSE <<>>)
      \o [i \in DOMAIN revisions |-> To("push", "change", {}, changeItemKey(revisions))]
      \o <<To("push", "deleted", {}, "d"), To("push", "tracked", {}, "t"),
           To("fetch", "", {}, "f"), To("fetch", "tracked", {}, "t"),
           Item("fetch", "all-remotes", {}, NoRemote, NoRemote, 0, "a")>>

selectedRemote(m) == IF m.remotes = <<>> THEN NoRemote ELSE m.remotes[m.tab]

-----------------------------------------------------------------------------
\* What is shown

\* The text after "@" contains the name of the selected remote.
mentions(item, remote) ==
  item.at /= LocalRemote /\ (item.at = remote \/ <<remote, item.at>> \in RemotePrefixes)

filterItemsByRemote(m) ==
  LET Kept(item) == IF selectedRemote(m) = LocalRemote THEN item.kind = "track" => item.at = LocalRemote
                    ELSE item.kind \in {"track", "untrack"} /\ mentions(item, selectedRemote(m))
  IN  SelectSeq(m.items, Kept)

remoteFilterMatch(m, item, word) ==
  IF selectedRemote(m) = LocalRemote THEN word = "untrack" \/ item.at = LocalRemote
  ELSE mentions(item, selectedRemote(m))

categoryFilterMatch(m, item) ==
  /\ item.kind = m.category
  /\ m.which = "bookmarks" /\ m.category \in {"track", "untrack"} => remoteFilterMatch(m, item, m.category)

\* "untrack" contains "track".
contains(item, text) ==
  /\ text.word /= "" => item.kind = text.word \/ (item.kind = "untrack" /\ text.word = "track")
  /\ text.name /= 0 => text.name \in item.names

textFilterMatch(m, item, text) ==
  /\ contains(item, text)
  /\ m.which = "bookmarks" /\ text.word \in {"track", "untrack"} => remoteFilterMatch(m, item, text.word)

menuFilterText(m) == IF m.filter = "editing" THEN m.input ELSE m.text

MenuShown(m) ==
  LET byRemote == IF m.which = "bookmarks" THEN filterItemsByRemote(m) ELSE m.items
      Kept(item) == (m.category /= "" => categoryFilterMatch(m, item)) /\ textFilterMatch(m, item, menuFilterText(m))
  IN  SelectSeq(byRemote, Kept)

applyMenuFilters(m, reset) ==
  LET shown == MenuShown(m)
  IN  [m EXCEPT !.shown = shown, !.cursor = IF reset \/ @ >= Len(shown) THEN 0 ELSE @]

updateMenuForRemote(m) ==
  applyMenuFilters(IF m.which = "git" THEN [m EXCEPT !.items = createMenuItems(m.revisions, selectedRemote(m))] ELSE m, FALSE)

resetTextFilter(m) ==
  applyMenuFilters([m EXCEPT !.input = NoText, !.text = NoText, !.filter = "off"], TRUE)

-----------------------------------------------------------------------------
\* The menus

NewMenu(which, remotes, revisions) ==
  [which |-> which, remotes |-> remotes, revisions |-> revisions, tab |-> 1, items |-> <<>>, shown |-> <<>>,
   cursor |-> 0, category |-> "", filter |-> "off", input |-> NoText, text |-> NoText, open |-> TRUE]

NewBookmarkMenu(remotes) == applyMenuFilters(NewMenu("bookmarks", <<LocalRemote>> \o remotes, <<>>), TRUE)

NewGitMenu(remotes, revisions) ==
  LET m == NewMenu("git", remotes, revisions)
  IN  applyMenuFilters([m EXCEPT !.items = createMenuItems(revisions, selectedRemote(m))], TRUE)

MenuInit ==
  /\ \/ \E remotes \in MenuRemotes : menu = NewBookmarkMenu(ParseRemoteListOutput(remotes, Origin)) /\ menuLoads = {"all", "movable"}
     \/ /\ \E remotes \in MenuRemotes, revisions \in GitSelections :
             menu = NewGitMenu(ParseRemoteListOutput(remotes, Origin), revisions)
        /\ menuLoads = {}
  /\ menuRan = <<>>

\* Mutant of addItems: what arrives is sorted for itself.
addItemsAtEnd(m, items) == [m EXCEPT !.items = @ \o SortSeq(items, itemSorter)]

addItems(m, items) == [m EXCEPT !.items = SortSeq(@ \o items, itemSorter)]

UpdateItems(load) ==
  /\ menu.open
  /\ load \in menuLoads
  /\ menuLoads' = menuLoads \ {load}
  /\ \/ load = "all" /\ \E lines \in MenuBookmarks :
          menu' = updateMenuForRemote(addItems(menu, loadAll(lines, menu.remotes)))
     \/ load = "movable" /\ \E lines \in MenuMovables :
          menu' = updateMenuForRemote(addItems(menu, loadMovables(lines)))
     \/ load = "all" /\ UNCHANGED menu             \* jj failed
  /\ UNCHANGED menuRan

Change(m) == menu.open /\ menu' = m /\ UNCHANGED <<menuLoads, menuRan>>

ClickItem(i) == i < Len(menu.shown) /\ Change([menu EXCEPT !.cursor = i])

SelectRemote(i) == i \in DOMAIN menu.remotes /\ Change(updateMenuForRemote([menu EXCEPT !.tab = i]))

\* The keys of the menu, while the text is not edited.
MenuKeys == menu.filter /= "editing"

cycleRemotes(step) ==
  /\ MenuKeys /\ menu.remotes /= <<>>
  /\ LET n == Len(menu.remotes) IN
     Change(updateMenuForRemote([menu EXCEPT !.tab = IF @ + step > n THEN 1 ELSE IF @ + step < 1 THEN n ELSE @ + step]))

MenuNavigate(delta) ==
  /\ MenuKeys
  /\ LET n == Len(menu.shown)  to == menu.cursor + delta IN
     Change([menu EXCEPT !.cursor = IF n = 0 \/ to < 0 THEN 0 ELSE IF to >= n THEN n - 1 ELSE to])

MenuOpenFilter == MenuKeys /\ Change([menu EXCEPT !.filter = "editing"])

MenuType(text) ==
  /\ menu.filter = "editing" /\ text /= menu.input
  /\ Change(applyMenuFilters([menu EXCEPT !.input = text], FALSE))

ApplyText ==
  /\ menu.filter = "editing"
  /\ Change(applyMenuFilters([menu EXCEPT !.text = menu.input, !.filter = IF menu.input = NoText THEN "off" ELSE "applied"], TRUE))

\* Escape: first the text, then every filter, then the menu.
MenuCancel ==
  \/ menu.filter = "editing" /\ Change(resetTextFilter(menu))
  \/ /\ MenuKeys /\ (menu.category /= "" \/ menuFilterText(menu) /= NoText)
     /\ Change(resetTextFilter([menu EXCEPT !.category = ""]))
  \/ MenuKeys /\ menu.category = "" /\ menuFilterText(menu) = NoText /\ Change([menu EXCEPT !.open = FALSE])

\* A command is run; the menu stays until the message that closes it arrives,
\* for the bookmark menu after the command, for the git menu before it.
RunItem(item) ==
  /\ menu.open /\ Len(menuRan) < MaxMenuRuns
  /\ menuRan' = Append(menuRan, item)
  /\ UNCHANGED <<menu, menuLoads>>

MenuClose == menuRan /= <<>> /\ Change([menu EXCEPT !.open = FALSE])

MenuApply == MenuKeys /\ menu.shown /= <<>> /\ RunItem(menu.shown[menu.cursor + 1])

WithKey(keys) == SelectSeq(menu.shown, LAMBDA item : item.key \in keys)

\* The second press of a category's key: the item the menu prefers, else the one under the cursor.
executeDefaultForFilter ==
  LET preferred == IF menu.which = "bookmarks" THEN SelectSeq(menu.shown, LAMBDA item : item.key /= "")
                   ELSE SelectSeq(menu.shown, LAMBDA item : item.kind = menu.category /\ item.what = "")
  IN  RunItem(IF preferred /= <<>> THEN Head(preferred) ELSE menu.shown[menu.cursor + 1])

MenuCategory(kind) ==
  /\ MenuKeys
  /\ kind \in (IF menu.which = "git" THEN {"push", "fetch"} ELSE Categories \ {"push", "fetch"})
  /\ IF menu.category = kind THEN menu.shown /= <<>> /\ executeDefaultForFilter
     ELSE Change(applyMenuFilters([menu EXCEPT !.category = kind], TRUE))

MenuShortcut(key) ==
  /\ MenuKeys /\ menu.category /= "" /\ WithKey({key}) /= <<>>
  /\ RunItem(Head(WithKey({key})))

MenuNext ==
  \/ \E load \in {"all", "movable"} : UpdateItems(load)
  \/ \E i \in 0..Len(menu.shown) : ClickItem(i)
  \/ \E i \in DOMAIN menu.remotes : SelectRemote(i)
  \/ \E d \in {-1, 1} : cycleRemotes(d) \/ MenuNavigate(d)
  \/ MenuOpenFilter \/ ApplyText \/ MenuCancel \/ MenuClose \/ MenuApply
  \/ \E text \in MenuTexts : MenuType(text)
  \/ \E kind \in Categories : MenuCategory(kind)
  \/ \E key \in {"m", "p", "a", "c", "b", "d", "t", "f"} : MenuShortcut(key)

-----------------------------------------------------------------------------
\* The cursor is on an item whenever one is shown: selectedItem, the default
\* of a category and the renderer rely on it while loads, tabs, filters and
\* clicks change the list (applyFilters, moveCursor).
MenuCursorInRange == menu.cursor = 0 \/ menu.cursor < Len(menu.shown)

\* What is shown is what the tab, the category and the text select from the
\* commands there are now; the list is cached and every load, key and click
\* has to bring it up to date (applyFilters).
MenuIsFresh == menu.shown = MenuShown(menu)

\* The two loads of the bookmark menu may end in any order, and the menu is
\* in the order of itemSorter all the same.
MenuIsSorted ==
  menu.which = "bookmarks" =>
    \A i, j \in DOMAIN menu.items : i < j => ~itemSorter(menu.items[j], menu.items[i])

\* In the git menu a command is for the remote whose tab is selected, unless
\* it names the remote a bookmark is on or all of them (createMenuItems).
GitItemsAreForTab ==
  menu.which = "git" => \A i \in DOMAIN menu.items :
    menu.items[i].what \in {"bookmark", "all-remotes"} \/ menu.items[i].to = selectedRemote(menu)

\* With a category selected a shortcut of the git menu stands for one command.
ShortcutsAreDistinct ==
  menu.which = "git" /\ menu.category /= "" => \A i, j \in DOMAIN menu.shown :
    menu.shown[i].key = menu.shown[j].key /\ menu.shown[i].key /= "" => i = j

\* The cached list of a menu is what its items, tab, category and text give, in order, with a command
\* under the cursor and one command for a shortcut (applyFilters after each load, key and click).
MenuIsSound == MenuCursorInRange /\ MenuIsFresh /\ MenuIsSorted /\ GitItemsAreForTab /\ ShortcutsAreDistinct
=============================================================================
