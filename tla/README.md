# Verification of the handheld measuring device

The program is the firmware of a handheld water-quality meter: an Arduino Mega
with a touch screen, a keypad, an SD card, an ESP8266 WiFi module, a real-time
clock, a siren and three sensors. Its own code is `src/Device.ino` (class
`Board`), `src/TFT.h` (the pages), `src/SDCard.h` and a few drivers, about
6,000 lines; the rest of `src/` is bitmaps, fonts and vendored libraries.
There are no tests, and the repository's README is one line: what the code is
meant to do is read from its comments, its tables and its symmetric pieces.

The program is single-threaded. What makes it hard to test is that its whole
control state is data: seventeen pages with a `"show"`/`"hide"` flag each, form
fields with two string flags each, cursors and windows shared by pages that
never reset them, and files that are rewritten in several calls while the
power switch is in the user's hand. Around it things happen by themselves: keys
go down and up between scans, probes are exchanged between passes, three clocks
run, the network comes and goes, and answers come late or never. Long mixes of
these lead to states nobody has looked at. That is what the models enumerate.

## The system

| Part | State it keeps | Operations | What is hard about it |
|---|---|---|---|
| Page dispatch (`Device.ino` `start()`, `TFT.h` `setPage`) | `page[17][2]`, `status`, `show`, `pageCalibrations` | one pass per `loop()`: the first shown page of a chain of else-ifs reads a key, draws itself if the status is `"change"`, reads a touch | nothing keeps a single page shown; handlers hide pages by number; key, drawing and touch of one pass act on different ideas of the current page |
| Configuration forms (`TFT.h` `drawKeyboard...`) | two flags per field, `config...[1]`, `config...[2]`; the text, `config...[0]` | typing, `#` confirms, `*` goes back, connect and return buttons | four copies of one handler; flags and order must stay consistent through partial visits |
| Keypad driver (`KPad.h`, `Keypad.cpp`) | the list of keys, one hold timer | one scan per pass of a form | only the key in the first slot is reported; it is not scanned while other pages are shown |
| On-screen keyboard (`TFT.h`) | `startrow`, `startcol`, `keyAlphabet`, `statuskeyboard` | arrows, shift, alphabet key, opening and closing a form | rows of different lengths under a cursor shared by all forms |
| History (`TFT.h`, `Device.ino`, `SDCard.h`) | `starthis`, `endhis`, `indexScoll`, `choosex/choosey`, `listchooseidpost`, `endhispost`, the files | open a file, scroll, choose rows, post the chosen ones, delete the choice | variables shared by files of different lengths; a fixed list with holes; records found by ids that may repeat |
| Configuration in use (`Device.ino`) | `tempConfig...`, `config...[0]`, `config.txt`, `standar.txt` | edit, abandon, connect (put into use and save), boot | three copies of each text; a save writes all forms, putting into use copies one; a save is remove, open, print with no check |
| JSON (`SDCard.h` `setConfig`, `setCalibrations`; ArduinoJson's deserializer) | a document and its memory pool | texts are printed into a line, the line is parsed at the next start | texts are printed without escapes, and the keyboard has both quotes, the colon and the comma; the pool is reckoned from the length of the line |
| Measuring (`Device.ino` page start, `SensorFactory.h`, `Sensor.h`) | the button in force, the sensor last identified, the last value, running or not, pending requests, the siren | choose, start, stop, post, save, return | some of it is reset when the page is opened and some is not; the probe may change between two passes |
| WiFi (`Esp8266.h`) | credentials, status | `connectWifi`: `begin()` until `status()` agrees | a loop that counts only some failures |
| HTTP and MQTT (`protocol.h`) | one client object for each request | a request and ten seconds of reading; MQTT never sends | late and lost answers; connections never given back; a wait that wraps |
| Clock (`RTCDS3231.h`, `DS3231.cpp`, `configTimeFromApi`, `TFT.h` `setTimeOut`) | the chip's registers, the time on the screen | set both from an HTTP Date header, start from the chip | several calls on clocks that run on; answers cut off; local time past midnight |
| Siren pin, battery, drawing | none or pins | ring, read, draw | nothing |

They interact by calls only. `Board` owns everything; `TFT` handlers get the
texts and flags of a form as arguments and write the page table, the status and
the flags back; `Board` then calls the card, the WiFi module or the clock.
The concurrency is with the user, the probes, the network, the clocks and the
power.

## The modules

| Module | Models | Its state and actions against the code |
|---|---|---|
| `FormRules` | the pure part of the four `drawKeyboard...` handlers | `Field` is the pair of flags (`sel`: `[1]` is "selected", `ok`: `[2]` is "success"); `Confirm`, `StepBack`, `Submits`, `Leaves`, `Typing` are the branches on `#`, `*` and `S` |
| `Form` | one form with N fields | an action for each: `Type`, `Hash`, `Star`, the two touch buttons, and opening, which resets the flags |
| `Wizard` | what a form promises: a cursor over N fields | abstract; `Form` implements it (`W == INSTANCE Wizard WITH ...`) with `pos` = first field not confirmed |
| `Keypad` | the keypad driver | `down` are the fingers; `Scan` is one `getKeys()`: `Updated(i)` is `updateList` and `nextKeyState` for slot i, `Reported` what `getKey` returns |
| `FormKeys` | a form behind the driver | `Pass` is a scan and the branch for the key it reports, in one pass of `start()`; `Hands` are fingers and time |
| `Board` | the whole user interface: dispatch, all seventeen pages, all five forms through `FormRules`, the three copies of the texts, power cycles | `pc` is the point of `start()`: `top`, `key`, `draw`, `touch`; `at` the page that has the pass. `Keys`, `Draws` and `Touches` each group one action per handler; `HandOver(p)` is a page without buttons passing on |
| `Keyboard` | the cursor and alphabets | `Up`, `Down`, `Left`, `Right` are functions of position and alphabet; actions `Move`, `Shift`, `Special`, `OpenText`, `OpenCalibration`, `Close` |
| `History` | browsing, choosing, posting | `DrawDetail`, `ListRows`, `TouchDetail`, `DrawPost`, `ListPost`, `TouchPost`, `PostServer` are the stages of the two pages; a file is a sequence of ids and a row number indexes it |
| `ConfigStore` | the two files of texts | `Remove`, `Open`, `Println` are the three calls of a save; `ReadConfig` and `ReadCalibrations` are the constructor; `PowerCycle` between any two; what a file reads as is the constant operator `Read` |
| `Json` | the line a save prints and the deserializer that reads it | `Printed` is the string built by `setConfig` and `setCalibrations`; `Parse` folds `Eat` over the characters of the line, from the capacity the constructor computes; `at` is where in `JsonDeserializer` the parse is, `room` what the memory pool has left |
| `ConfigCard` | the two files as the deserializer reads them | composes `ConfigStore` with `Json`: `Outcome` is what the constructor gets from a file, by `Parse` of the lines of its objects; `Keys` is the order of printing, `Spelling` what a text is made of |
| `Measure` | the measuring page | a pass is `Measure`, `Post`, `Save`, `Touch`, in the order of the code; `Plug` exchanges the probe at any point; a value is the sensor whose formula computed it and the calibration used |
| `Esp8266` | `connectWifi` | `Call`, then `Status`, `Begin`, `Check` on a network that may `Flap` before each; used by `Clock` and `Posting` |
| `Clock` | setting the clocks and starting from the chip | `Tick` moves server, screen and chip; `Get`, `SetTimeOut`, `WriteHour` ... `WriteDate` are the calls in their order, each some ticks after the one before |
| `Posting` | the loop of the page postServer, `postServer` and the HTTP client's `post()` | `BeginRow`, `Connected`, `Open`, `Hear`, `WaitOver`, `Show` follow one row; `Serve`, `LoseRequest`, `LoseAnswer` are the server and the network; `links` counts connections held |
| `Delivery` | what posting promises: the rows in order, each sent at most once a visit and stored at most once | abstract; `Posting` implements it (`D == INSTANCE Delivery WITH ...`) |
| `Choice` | what choosing records promises, until one that is chosen is touched again: different records in the order they were touched, as many as there are slots, and posting takes them in this order | abstract; `History` implements it (`C`): `chosen` is the slots filled, `posted` the ids of the records sent |
| `Storage` | what keeping texts on the card promises to the pages: a save replaces a whole file by the texts being edited, a start puts into use what the card has | abstract; `Board`, which saves in one step, implements it (`Card`), and so does `ConfigStore`, which takes three (`S`) |
| `..._proofs` | theorems; those about `Keyboard`, `Keypad` and `FormKeys` are in `Form_proofs` | see below |
| `MC...` | instances for TLC | `MCHistory` adds symmetries; `MCConfigStore` gives `Read` the `Outcome` of `ConfigCard`, computed once for each file |

`Board` composes the page dispatch with the rules of the forms (it EXTENDS
`FormRules`, as `Form` does), `FormKeys` composes a form with the keypad, and
`Clock` and `Posting` compose their callers with the WiFi connection; `ConfigCard`
puts the deserializer of `Json` behind the files of `ConfigStore`. `Keyboard`,
`History`, `ConfigStore`, `Measure`, `Clock` and `Posting` refine parts that
`Board` keeps as one step or leaves out: `Board` writes the card in one step, and
`ConfigStore` shows what that step is made of (both implement `Storage`); `History` posts in one step, and
`Posting` shows what that step is made of.

Variables described as observed (`forced`, `taken`, `failed`, `quiet`, `opened`,
`chosen`, `measured`, `whole`, `spoilt`, `begun`, `mistaken` ...) are not in the
code and no guard looks at them: they record what the properties talk about.

Definitions whose comment begins with "Defect" are slips a maintainer could
make in the definition that follows them, kept so that each property can be
seen to fail; no specification uses them.

### Abstractions

- A text is one of a few values. `Blank` in `Board` is "one of the first two
  fields is empty", the only thing the connect button asks.
- In `Board` a key is any key at any pass and a touch any button of the page
  that has the pass, or none; `FormKeys` is where keys come from fingers.
- Drawing is reduced to which page was drawn in full last (`screen`).
- `Board` takes any answer of WiFi, server and clock; `Posting` and `Clock` show
  where the answers come from.
- In `Json`, characters the deserializer treats alike are one: any letter, any
  digit, any other. No key is a brace, a bracket or a backslash, so there are no
  nested objects, arrays or escapes in the line. A bare value is a number without
  sign, point or exponent, and keywords (`true`, `null`) are left out: they read as
  an empty text, as a number does. A string that does not fit into the pool
  fails at its first character too many and not at its end. The padding of the
  pool is left out, and a member is `SlotSize` bytes as on a small machine (the
  run has 11 of 16, as the constructors ask for).
- Keys of the document are single letters, which differ as the names in the code
  do. A calibration whose key is missing becomes `"0.0"` in the code if the compiler
  shares its empty literals (`src/Device.ino:1097` compares pointers) and an empty
  text if not; in the model it is empty. Only a `"` in a text can make a key missing.
- A file that does not exist and an empty one read the same
  (`SDCard::readFile` creates the first and returns `""`).
- The reads and writes of a static buffer in `History` are kept (`buffer`):
  a record that is not found leaves the one parsed before.
- A measured value is the sensor whose formula computed it and the calibration
  used: what the properties can tell apart of a number. Voltages that identify
  probes are hundredths of a volt.
- A date is a number of days. Months, weekdays and years are written in one
  call from one answer, so nothing comes between them.
- Requests on the way are counted for each row and visit; answers are a set,
  since only the current connection is read and it is read as one string.
- The client of `src/protocol.h:142` calls `this->client.close()` without a
  semicolon, on a class with no such method; the models take the rest of the
  file as it is meant to be compiled.

## The runs

| Run | Question | Bounds, and why they are enough |
|---|---|---|
| `form` | with any keys held, pressed together or let go between scans: does a press count once, is the first key after a pause heard, do the flags describe one position, does the form implement `Wizard` | N = 4, the longest form there is; two texts tell changed from unchanged; three keys (typing, `#`, `*`), a slot for each, two fingers: one key held and one pressed, or two at once |
| `board_wifi_mqtt` | is one page shown; are edited, used and saved texts in step | WiFi (2 fields) and MQTT (4 fields), one input per pass, keys before the first drawing, resets anywhere |
| `board_acting` | where does a page without buttons hang, does the device return to a menu otherwise, does the page on the screen interpret the touch, is some page always shown, are forms consistent | HTTP and SAL, one form of each kind and the one whose `*` leaves it marked (finding 1); key and touch in one pass, keys also before the first drawing, resets anywhere |
| `board_star_http` | *finding 1* | HTTP alone |
| `keyboard` | can the cursor leave the keys; how far is a key; do the switching keys switch | the real keyboard, no bound; six presses are tight: with five `EveryKeyNear` fails |
| `history` | do window, bar, choice and post page fit the open file; is the choice a set that is shown and posted exactly | two files of up to 3 ids that may repeat (`MaxLen`), page of 2 rows, 2 slots: a file shorter than, as long as and longer than a page, a list that fills up, rows touched singly or on a shared line |
| `history_hole` | *finding 2* | one file, 2 ids, 2 slots |
| `store` | after failed and cut-off saves, and with any text the keyboard can produce, what does the next save leave, what does the next start load, do removed texts come back; does the deserializer give back what was printed | one text in each file; it is empty, ordinary, or has quotes: one that spoils the object, two that end the text early, or two that repeat a key; a file that is not removed grows to 2 objects (`MaxObjects`), one more than a reader looks at. `RoundTrip`: three texts, one of them any and the other two alike, of up to 2 characters (`LongText`) of every class, so that each class follows each, next to every end of a text |
| `measure` | are records, buttons, calibrations, requests and the siren in step with the probe | one voltage for each of the three probes, one that identifies none, one for an empty pin: the five outcomes of `checkSensor`; two calibrations |
| `measure_ph` | *finding 3* | the same |
| `clock` | are chip and screen right where the code can make them so; does the connection attempt end | days of 3 hours of 2 minutes of 2 seconds, an hour of zone: two thirds of a day in which local and server's day agree and one in which they do not; every kind of carry; `MaxDelay` 2 ticks, as long as a minute; `MaxTime` 12 ticks, a whole day |
| `posting` | is a row shown as done for its own answer only, is nothing sent twice, is the page left | two rows on two visits (`Visits`); 2 connections (`Links`), so that a second visit has none left; `millis()` modulo 4 with a wait of 2, so that every wait of a second row may wrap |

The passing runs show that the properties hold in every reachable state of
these instances. A page of 8 rows and a list of 20 slots are reduced to 2
because the code treats all rows alike, a day of 86,400 seconds to 12 because
it treats all digits alike, and the theorems hold for any number. No run has a
state constraint, and symmetry is used only for files and ids that no
guard tells apart, in runs without liveness.

### What the interesting properties say

- `PressPerStep`, `FirstPressHeard`: a key held over a change of pages, or past
  the hold time, does not confirm the next field; and after three scans without
  a key (the hold, the release and the end may take one each) the driver is
  ready, whatever was held before.
- `FormsConsistent` / `OnePosition`: never two cursors, never a confirmed field
  after an open one, also for forms left half way, or left marked behind
  another page.
- `SomePageShown`: `start()` has no final else, so with every page hidden the
  device is dead until reset. It never happens, although handlers hide pages
  that are not theirs.
- `SavedIsInUse`, `SaveOwnForm`, `EditsDropped`: connecting saves *all* texts
  but puts *one* form's into use. It works only because `chooseconfig` restores
  the texts of the others when it is drawn, which the three properties together state.
- `TouchSeesItsPage`: a button's rectangle belongs to the page on the screen. A
  form, and no other page, may also get a touch on a blank screen: if a key came
  before its first drawing, or if it is the HTTP form after its `*`.
- `NoDeadEnd`: a page without buttons acts only if the status is `"change"` when
  it gets its pass; otherwise it hangs. The run contains such a hang (see
  below), and the property says that it is the only one: the screen then shows
  a form that is not marked any more (`FormBehind`), whatever was pressed and touched.
- `ActingReturns`: in every other case the device gets from such a page to a menu
  by itself, if its calls to the network return.
- `WindowInFile`, `ScrollbarShowsWindow`: one window, shared by files of all
  lengths, clamped by rules other than the bar's.
- `ChosenFromFile`, `OnlyTouchedRows`: ids chosen in one file are not shown or
  posted with another, and the rectangle of the last touch, which is kept when
  the page is left, never chooses a row it is not on.
- `FollowsChoice`, `HighlightIsChoice`, `PostsChoice`: the list is a sequence of
  different records in the order they were touched, as `Choice` has it, what is
  highlighted is in it and what is posted is it, as long as no row is taken out
  singly (finding 2 is what happens then).
- `SaveHolds`, `NeverOlder`, `LoadsLastSave`: a save that goes through is all
  that its file holds, whatever earlier saves left there; the next start loads
  it, by whichever of the constructor's ways out. `LoadsLastSave` is about texts
  without a `"`; that such texts read back, also with a second object behind
  them in the file, is `ReadsBack`, checked on the deserializer itself.
- `RoundTrip`: the second quote character, colons, commas and spaces in a text do
  no harm, and the memory reckoned from the length of the line suffices for
  all members and strings, whichever of the strings are equal.
- `RecordIsOnScreen`: name, value and stream of a record come from three
  places; once something was measured on the visit they agree.
  `AnsweredOnVisit`: a request to post or save never waits for the next visit.
- `SalinityCalibrated`: although each pH measurement configures the salinity
  object too (finding 3), a salinity shown used the salinity's calibration.
- `SirenAnswers`: armed by a touch, disarmed by ringing and armed again by an
  empty pin, the siren rings for a probe that stays.
- `ChipRight`, `ScreenRight`: after a whole answer the screen is
  late by no more than the calls took, and so is the chip *in the hours in
  which local time is before midnight* and unless a carry came between two
  writes. Otherwise the chip keeps a wrong time, but one of the day
  (`ChipInRange`, which is only proved).
- `DoneStored`, `ImplementsDelivery`: an answer that comes late is not taken
  for the next row's, since each row has a connection of its own.
- `ConnectReturns`, `PostEnds`: the loop of `connectWifi` ends and the page is
  left, as soon as the network makes up its mind.

### Findings

1. **`*` on the HTTP form hides the wrong page** (`src/TFT.h:2253`, run
   `board_star_http`). The handler sets `page[1][1]` (the WiFi form) to hide;
   the table of pages says the HTTP form is page 8 (`src/TFT.h:121`), and every
   other exit of that form hides page 8. Two pages are then marked, and the HTTP
   form gets the pass again as soon as it precedes the other one in the chain.
2. **A hole in the list of chosen records** (`src/TFT.h:3641`, run
   `history_hole`). `indexOfChoosePost` looks at the first `getLenChoosePost()`
   slots, the number that is filled, but taking an id out leaves a hole before
   the last one. An id behind it is not found, is not highlighted, and
   `choosePost` adds it again where its comment says "ID doesn't exist, add it
   to the list" (`src/TFT.h:3679`).
3. **pH is measured without its calibration** (`src/SensorFactory.h:71`, run
   `measure_ph`). The branch commented "PH" configures `sensorSalinity` with
   the slope and intercept of pH and never `sensorPH`, so what the user enters
   for pH has no effect.

### What holds only under conditions

Exploration beyond the runs above shows where the properties stop holding;
these are limits of the code with no comment or test that says otherwise:

- With the HTTP or a calibration form open, or with a key and a touch in one
  pass, `OnePageShown`, `SavedIsInUse`, `SaveOwnForm` and `EditsDropped` fail:
  two pages are marked and the wrong one gets the next pass. Hence the
  constants of `board_wifi_mqtt`, and the assumption `Plain` of the theorems.
- A connect page can hang. A key that comes before a form just opened has been
  drawn sets the status to `"no change"` (`src/Device.ino:256`), which skips the
  reset and the drawing but leaves the request for them (`getShowKeyBoard`). When a
  `#` on the undrawn form then hands over, at once on the flags of an earlier
  visit or as the third one on fresh flags of two fields, the same pass finds
  the status `"change"`, draws the form and takes the status back, and the
  connect page waits for a redraw that never comes.
  Without `\/ FormBehind`, `NoDeadEnd` fails in `board_acting` after 18 steps, and
  without `~ FormBehind` so does `ActingReturns`. `BoardDeadEndLasts` proves that
  only a reset ends it. No comment, doc or test says otherwise, hence no finding.
- `SwitchesAlphabet` leaves out what the calibration page has put up: it draws
  the special characters without setting `statuskeyboard` (`src/TFT.h:700`).
- A `"` in a text is printed as it is. `config.txt` may then not parse, and the
  constructor returns before it reads the calibrations (`src/Device.ino:131`); or
  it parses to a shorter text, or to a text the user gave another key. Hence
  `Plain` in `LoadsLastSave` and `ReadsBack`, and the exception in `RoundTrip`.
- With a failed `remove()`, the new object is appended behind the old one and
  the next start reads the old one; `NeverOlder` is until a call fails.
- A save is not atomic: a reset between remove and close loses the texts.
  `NeverOlder` says that is the worst it can do.
- Before anything was measured on a visit, post and save use the sensor of the
  visit before with the value 0 (`src/Device.ino:767`): hence `measured` in
  `RecordIsOnScreen`.
- From 17:00 UTC on, `hour + 7` is 24 or more, `setTime` refuses it and writes
  nothing, and `setDate` goes on; the page says the clock was set.
- A carry of the chip between two of its writes is not corrected (`spoilt`).
- "200" or "201" anywhere in an answer is a success (`mistaken`).
- A request keeps its connection unless the module itself reads that the server
  has closed it: with all `Links` held every row fails.
- Posting again on another visit stores the records again.

### Fairness

- `Board`, `FairSpec`: `WF_vars(Loop /\ ~ Calling)`. The Arduino core calls `loop()`
  for ever. No key, touch or reset is ever promised, `ActingReturns` needs none;
  nor is it promised that a step returns in which `connectWifi` is called
  (`Calling`), which on a network that comes and goes it need not
  (`src/Esp8266.h:66`). That they return is the premise `[]<>(~ Calling)` of
  `ActingReturns`, without which it fails; `ConnectReturns` of `Clock` is about
  when they do.
- `Measure`: `WF_vars(Pass)`, the same loop while the page is shown. No button
  and no probe is promised.
- `Clock`: `WF_vars(Device)`, the processor runs. The world is not fair, so the
  network may change between any two calls; `ConnectReturns` is under the
  premise that in the end it stays up or stays down, without which the loop
  need not end.
- `Posting`: `WF` of the device and of `Tick`, as `millis()` is a timer interrupt.
  Nothing is promised of the server or the network but the same premise.

Deadlock is checked in every run: the device always has a step.

## The proofs

All theorems are checked by TLAPS for every value of the constants allowed by
the named assumptions. Type correctness is only proved, as part of each
inductive invariant, and is not repeated in the runs.

- **Form and keypad** (`FormRules_proofs`, `Form_proofs`). `AtField(fields, k)`
  says that the fields before k are confirmed and k alone is selected. Lemmas
  `ConfirmMoves` and `StepBackMoves` say that `#` and `*` lead from `AtField(k)`
  to k + 1 and k - 1. The invariant is `TypeOK /\ OnePosition`; it gives
  `ConfirmedIsFinal`, `OneFieldPerKey` (both only proved), and the refinement of `Wizard`
  (initial states map to initial states, steps to steps or stutters), for every
  N >= 2. `KeysImplementForm` carries all of that to the form behind the keypad.
  `PressPerStep` follows from `HeldInv` (a key not seen up since its report is
  on the list in a state that is not reported again), and `FirstPressHeard` from
  `QuietInv`, which says what each of the last scans without a key has done to
  every slot, for any keys, slots and fingers.
- **Board, any input** (`Board_proofs`). `IInv == Control /\ Data /\ Flags`.
  `SomePageShown` is not inductive alone: between key and touch of one pass,
  `index` and `chooseconfig` may hide pages without showing one, which is safe
  only because they are still shown themselves; `Control` records that. `Flags`
  is `AtField` for each form, through the two lemmas of the form.
- **Board, one page**, under `Plain`: only WiFi and MQTT are opened, and no pass
  handles a key and a touch. `OnePage` says which single page is shown at each
  point of the pass; `Texts` relates edited, used and saved texts for each page,
  from which `SavedIsInUse`, `EditsDropped` and `SaveOwnForm` follow.
- **Board, the first page**, for all forms, with a key and a touch in one pass and
  keys before a form is drawn, so also where two pages are marked. `Turn` says
  that until a key or a touch hands over, the page that has the pass is the first
  shown in the chain, that a form drawn after its `#` is not marked any more, and
  that another page becomes first only together with a request to draw, but where
  such a form was drawn: hence `NoDeadEnd`. `BoardDeadEndLasts` says that the hang
  is one. `BoardActs`: a page without buttons, no form having been drawn behind
  it, hands over in the second step of the loop, and a menu is then first, which
  is what `ActingReturns` needs beside fairness and returning calls.
- **Board, the screen**, for the same. `Order` says which pages may be marked behind the
  first: never a configuration form, and behind a form never the index page, the
  page of the time or one of the history. So the form that `*` leaves marked
  (finding 1) is still the first, and behind a form drawn after its `#` a page
  without touches has the next pass. `InFront` adds what is on the screen with
  and without a redraw pending, hence `TouchSeesItsPage`.
- **Keyboard**. The alphabet changes only where every alphabet has a key, so
  `TypeOK /\ CursorOnKey` is inductive. Until the calibration page puts up an
  alphabet (`forced`), `statuskeyboard` names the one that is up, hence
  `SwitchesAlphabet`. `EveryKeyNear` follows from `CursorOnKey` alone: one press along
  a row, which closes on itself, brings the cursor one key nearer (`RowStep`), so five
  presses cross any row; one press up or down leads to the row of the key (`OneHop`),
  or two do and four are left (`TwoHops`), which is too few for nine pairs of keys
  from the third row to the first and for four of the special alphabet from the last
  to the second: for these the way is written out.
- **History**. For any window, list and file length: `Windowed` and `Paged`
  strengthen `WindowInFile` and `ScrollbarShowsWindow` with what holds between
  opening a file and drawing it; `ChoosePostOwn` and `ListRowsOwn` say that a
  pass over the rows touches its own ids only, as an invariant of the fold over
  the rows. `Packed` (the filled slots come first and hold different ids) is
  what a pass keeps until a row is taken out; `PackedFinds`, `ChooseNext` and
  `PostedSlots` are its lemmas, and `HighlightIsChoice`, `PostsChoice` and
  `ChosenOnce` (only proved) its consequences. So is `FollowsChoice`: a pass appends
  the ids of one row or two (`ListRowsChoose`), and posting gives the sequence.
  `PostRowsFilled` has an invariant of its own. `HistoryTypeOK` needs `KInv`: what
  the buffers hold is a record of a file that only grows, whatever ids the loop of
  `postServer` looks for. That loop is a recursive function: `PostedLoop` gives it
  a closed form, the record found last.
- **ConfigStore**. `Cleared` (a save that has not failed works on an empty file
  after its first call) and `ConfigRead` (after the first half of the
  constructor, memory holds the file) make `SaveHolds` and `LoadsLastSave`
  inductive, with failing calls and lost power anywhere. `StoreNeverOlder` adds
  what is known until a call fails (`failed`). `Read` is a parameter of `ConfigStore`;
  the theorems that need to know it assume `ReadAsParsed`, that the card is read by
  the deserializer of `Json`, and nothing about what the deserializer gives: that is
  proved next.
- **The deserializer**. `JsonReadsBack`: texts of any length without the quote
  character that ends them come back, under any keys for which there are slots, with
  any objects behind the first. `Parse` is a fold, and induction over data is out of
  the provers' reach, so the proof goes by numbers: a fold over a line of n characters
  runs through n + 1 states (`RunSteps`, from `Induction` over the naturals), and a run
  over two lines joined is a run over the second from where the first ends
  (`RunConcat`). Then what one character does (the lemmas `Eat...`), what a text does
  (`RunText`), a member (`RunMember`) and a member in its place (`RunPlace`, whose
  invariant is `Holds`: the document has the members so far), and the whole object.
  The room left never falls below the characters still to come and a slot for each
  member still to come, since a member of n characters costs n - 3 bytes and a slot:
  this is why the capacity the constructor computes is enough, even if no two
  strings are equal. Behind the first object the parse is at rest (`RunDone`).
  Assumed is what the code has: at most as many keys as the capacity has slots (11 are
  asked for, `src/Device.ino:122` and `:1062`; the files have 8 and 4 keys,
  `src/SDCard.h:213` and `:222`), different keys, and no quote in a key.
  `StoreReadsBack` and `StoreRoundTrip` are the two properties of the run `store`.
- **Storage**. `BoardImplementsStorage` has no assumption: whatever pages are shown
  at once, what is on the card is always what some connect page saved, whole.
  `StoreImplementsStorage` says the same of the three calls, with power lost between
  any two of them, under three hypotheses: no call fails, texts have no quote
  characters (`Plain = Texts`), and the card is read by the deserializer
  (`ReadAsParsed`). The first two are needed: after a remove that failed the next start reads the older object,
  and a quote may spoil the file. A file that was removed reads as empty texts,
  which is `Clear` in `Storage`. The invariant says that a file has one object at
  most (`OneObject`), none after the first call (`Emptied`), that the texts handed
  to a save are those being edited (`Handed`), and what a half done start has read
  (`Starting`), during which the texts being edited map to those on the card.
- **Measure**. `Answered` (a pass posts before it saves and saves before it
  looks at the buttons), `Named` (what was identified is what is drawn) and
  `InForce` (the button drawn as chosen is in force) strengthen the four
  properties, for any voltages and calibrations.
- **Clock**. First that registers stay in range, then `Behind`: how old the
  answer is (`Aged`), what the registers written so far are worth (`Written`),
  and the same for the chip half read at start (`HalfRead`). The arithmetic is in
  lemmas: `Ticks` undoes `Fields` (`TicksFields`), adding the zone to the hours
  adds it to the ticks (`TicksZone`), and a tick of the chip adds one
  (`TicksTicked`), for days of any size.
- **Posting**. For any rows, visits, connections, wait and width of `millis()`. A
  request is on its way, or stored, at most once and only if its row was begun
  (`SentOnce`); what was begun is before the row of the visit, or is that row while
  it waits (`BegunInOrder`); a request has one answer, which gives its connection back
  (`AnsweredOnce`); and what was heard is of the row that waits (`HeardTruly`), since
  no answer outlives its wait (`Placed`). Together they give `DoneStored`,
  `StoredOnce` (the server stores a row once a visit at most, only proved) and, step
  by step, the refinement of `Delivery`.
- **What liveness rests on**. Fairness is beyond the prover, but that the steps
  lead somewhere is not. `PostProgress`: a number (`Left`) bounds the steps that the
  device has left on the page; each of its steps lowers it, no step of the world
  raises it while the network stays as it is, and a change of the network by five
  at most; while it waits, every tick brings the end of the wait nearer, never
  further off than the wait itself (`WaitBounded`), however `millis()` wraps.
  `ClockAttemptNears` says the same of `connectWifi` (eight steps),
  `MeasureSirenAnswering` of the siren (four), whatever is touched or plugged in, and
  `BoardActs` of the pages that act. The runs check that fairness does the rest.

Only model-checked: `ActingReturns`, `SirenAnswers`, `ConnectReturns` and
`PostEnds` as liveness, since fairness and ENABLED are outside the prover (the
theorems above are what they rest on). Every invariant and every action property
that a passing run checks is also stated by a theorem.

## Not modelled

- Drawing, bitmaps, fonts, pins and logging: nothing is read back from the
  screen. The battery's percentage is a voltage that is only drawn.
- The MQTT client of `protocol.h`: its `connect` says 1 without connecting and
  its `post` has no caller. That posting over MQTT fails is a branch of `Posting`.
- `SDCard::changeStatus`, which has no caller.
- Failing appends of a measured record: `History` takes the files as they are.
- Which of two records with the same id is posted: the code keeps nothing that
  tells them apart, so `PostsChoice` is about ids.
- Exhausted memory. The page `start` makes three sensors at each visit and each
  request a client, and nothing is deleted; what a full heap does to this
  program is undefined everywhere at once.
- Vendored libraries, which are most of the lines under `src/`. Modelled are those
  whose order of steps the device depends on: Keypad, DS3231 and the part of
  ArduinoJson that `deserializeJson` runs through. The rest of ArduinoJson
  (its tests, its serializers, MessagePack, filters, comments) is not used here.
  SD is left at what its callers see, a call that fails or not: `SD.h` is a
  wrapper around an SDFS that is not in the repository, and `SdFile.cpp`,
  `Sd2Card.cpp` and their headers are not on the path of any call the program
  makes. UTFT, URTouch and TouchScreen draw, or give a touch that is in a
  rectangle; PubSubClient and WiFiClientSecure never get to send.

So the models stand for a small share of the repository's lines. What they leave
out is drawing (most of `TFT.h` is coordinates, colours and texts), bitmaps,
fonts, tests and examples of libraries, and library code that is never reached.

## Plan

Done: `FormRules`, `Form`, `Wizard`, `Keypad`, `FormKeys`, `Board`, `Keyboard`,
`History`, `ConfigStore`, `Json`, `Measure`, `Esp8266`, `Clock`, `Posting`, `Delivery`,
`Storage`, `Choice`, `ConfigCard`, with the theorems above.

Next: records that fail to be appended, and the lines of `History`'s files through
`Json`, a record whose line was cut off by a reset.
