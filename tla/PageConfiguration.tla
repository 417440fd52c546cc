-------------------------- MODULE PageConfiguration --------------------------
(***************************************************************************)
(* The configuration side of the page, script.js: the constellation in     *)
(* customPreset, the ground stations, the settings, the cards that show    *)
(* them, and what Globe draws of them.  One action is one event handler.   *)
(*                                                                         *)
(* A card is only ever rebuilt whole, from the configuration; in between,  *)
(* the handlers write through the position data-i that the card was built  *)
(* with.  Ground stations are objects: clicking a preset of the library a  *)
(* second time lists the same object twice.                                *)
(***************************************************************************)
EXTENDS Integers, Sequences, SequencesExt

CONSTANTS
  Typed,        (* Typed[f]: texts that a user types into field f            *)
  Bases,        (* texts that names begin with                               *)
  TypedNames,   (* names that a user types                                   *)
  Colors,       (* the colors offered on the cards                           *)
  MaxEdits      (* bound on the length of a configuration session            *)

(* A text is a number, in tenths, or a word that is none.  JavaScript       *)
(* takes the empty text for 0.                                              *)
Number(n) == [is |-> "number", tenths |-> n]
Empty == [is |-> "empty", tenths |-> 0]
Word == [is |-> "word", tenths |-> 0]
Texts == [is : {"number", "empty", "word"}, tenths : Int]

(* A name is a text with the numbers appended to it.                        *)
AllNames == [base : Bases, digits : Seq(Nat)]
Name(base) == [base |-> base, digits |-> <<>>]
Suffixed(name, k) == [base |-> name.base, digits |-> Append(name.digits, k)]

ElementFields == {"numRings", "numSatellitesPerRing", "inclination", "orbitalPeriod"}
StationFields == {"lat", "lon"}
SettingFields == {"timeScale", "duration", "interval"}
Types == {"single", "double"}

ASSUME ConfigurationAssumption ==
  /\ \A f \in ElementFields \cup StationFields \cup SettingFields : Typed[f] \subseteq Texts
  /\ {"Ottawa", "Toronto", "London", "Custom", ""} \subseteq Bases
  /\ TypedNames \subseteq AllNames
  /\ {"red", "yellow", "green", "blue"} \subseteq Colors
  /\ MaxEdits \in Nat

VARIABLES
  preset,       (* customPreset: name and elements                           *)
  info,         (* the name in .constellation-info                           *)
  marked,       (* the card of the library marked active                     *)
  cards,        (* the cards in #elements                                    *)
  objects,      (* all ground station objects; the first three are presets   *)
  listed,       (* groundStations                                            *)
  taken,        (* groundStationNames, 0 for a name that is no key           *)
  stationCards, (* the cards in #ground-stations                             *)
  settings,     (* timeScale and simulationConfig                            *)
  settingInputs,(* their input fields                                        *)
  globe,        (* what the layers of Globe were last given                  *)
  disabled,     (* set by disableInputs                                      *)
  edits         (* events so far                                             *)

elementVars == <<preset, info, marked, cards>>
stationVars == <<objects, listed, taken, stationCards>>
settingVars == <<settings, settingInputs>>
configurationVars ==
  <<elementVars, stationVars, settingVars, globe, disabled, edits>>

-----------------------------------------------------------------------------
(* The library of Globe.                                                    *)
Element(rings, satellites, inclination, color, type) ==
  [numRings |-> Number(rings), numSatellitesPerRing |-> Number(satellites),
   inclination |-> Number(inclination), orbitalPeriod |-> Number(950),
   color |-> color, type |-> type]

Library ==
  [iridium |-> [name |-> "Iridium-like",
                elements |-> <<Element(100, 200, 900, "red", "single")>>],
   telesat |-> [name |-> "Telesat-like",
                elements |-> <<Element(200, 200, 500, "red", "double"),
                               Element(50, 100, 800, "blue", "double")>>]]

Station(name, uniqueName, lat, lon, color) ==
  [name |-> name, uniqueName |-> uniqueName,
   lat |-> Number(lat), lon |-> Number(lon), color |-> color]

StationPresets ==
  <<Station(Name("Ottawa"), Name("Ottawa"), 454, -757, "green"),
    Station(Name("Toronto"), Name("Toronto"), 437, -794, "yellow"),
    Station(Name("London"), Name("London"), 515, 1, "red")>>

(* The test of the input handlers.                                          *)
Valid(f, text) ==
  LET x == text.tenths IN
  /\ text.is # "word"
  /\ CASE f \in {"numRings", "numSatellitesPerRing", "duration", "interval"} -> x > 0
       [] f = "inclination"   -> 0 < x /\ x < 3600
       [] f = "orbitalPeriod" -> 900 <= x /\ x <= 1000
       [] f = "lat"           -> -900 <= x /\ x <= 900
       [] f = "lon"           -> -1800 <= x /\ x <= 1800
       [] f = "timeScale"     -> 0 < x /\ x < 10000000

(* parseInt, towards zero. *)
ParseInt(text) ==
  IF text.is # "number" THEN Word
  ELSE IF text.tenths >= 0 THEN Number(10 * (text.tenths \div 10))
       ELSE Number(-10 * ((-text.tenths) \div 10))

(* Arrow up and arrow down, then the input event.                           *)
Stepped(text) ==
  IF text.is = "word" THEN {text}
  ELSE {IF ParseInt(text) = Word THEN Word
        ELSE Number(ParseInt(text).tenths + by) : by \in {-10, 10}}

(* What can come to stand in an input field that shows a text: something    *)
(* typed, the text stepped with an arrow key, or the text itself, on which  *)
(* any other key fires the input event.                                     *)
InputOf(f, text) == Typed[f] \cup Stepped(text) \cup {text}

-----------------------------------------------------------------------------
(* Globe.configure: one ring per j < numRings, spread over half the globe   *)
(* or all of it; satellites per ring likewise.  A ring finds its satellites *)
(* a place only if its period is one of the whole minutes of a table.       *)
Ceiling(tenths) == (tenths + 9) \div 10

Rings(e) ==
  [rings |-> Ceiling(e.numRings.tenths),
   satellites |-> Ceiling(e.numSatellitesPerRing.tenths),
   degrees |-> IF e.type = "double" THEN 360 ELSE 180,
   inclination |-> e.inclination,
   orbitalPeriod |-> e.orbitalPeriod,
   placed |-> e.orbitalPeriod.tenths % 10 = 0,
   color |-> e.color]

Configure(elements) == [i \in DOMAIN elements |-> Rings(elements[i])]

(* Globe.applyGroundStations: a placemark per entry of the list.            *)
Placemarks(os, list) ==
  [i \in DOMAIN list |->
    [lat |-> os[list[i]].lat, lon |-> os[list[i]].lon, color |-> os[list[i]].color]]

DrawElements(elements) == globe' = [globe EXCEPT !.rings = Configure(elements)]
DrawStations(os, list) == globe' = [globe EXCEPT !.stations = Placemarks(os, list)]

-----------------------------------------------------------------------------
(* getElementHTML: what a new card shows, nothing of it marked invalid.     *)
ElementCard(e, i) ==
  [i |-> i, text |-> [f \in ElementFields |-> e[f]], invalid |-> {},
   type |-> e.type, color |-> e.color]

ElementCards(elements) == [i \in DOMAIN elements |-> ElementCard(elements[i], i)]

(* applyPreset.                                                             *)
ApplyPreset(p) ==
  /\ preset' = p
  /\ info' = p.name
  /\ cards' = ElementCards(p.elements)
  /\ DrawElements(p.elements)

Edit == edits < MaxEdits /\ edits' = edits + 1 /\ UNCHANGED disabled

(* What is marked .disabled gets no clicks, a disabled input no events.     *)
Enabled == ~disabled

EditElements == Edit /\ Enabled /\ UNCHANGED <<stationVars, settingVars>>

ChoosePreset(p) ==
  /\ EditElements
  /\ marked' = p
  /\ ApplyPreset(Library[p])

AddElement ==
  /\ EditElements
  /\ marked' = "none"
  /\ ApplyPreset([name |-> "Custom",
                  elements |-> Append(preset.elements, Element(10, 100, 900, "red", "single"))])

CloseElement(c) ==
  /\ EditElements
  /\ marked' = "none"
  /\ ApplyPreset([name |-> "Custom", elements |-> RemoveAt(preset.elements, cards[c].i)])

(* Seeded fault: the constellation keeps its name. *)
WriteElementOfPreset(c, f, value) ==
  LET elements == [preset.elements EXCEPT ![cards[c].i] = [@ EXCEPT ![f] = value]] IN
  /\ preset' = [name |-> preset.name, elements |-> elements]
  /\ DrawElements(elements)

(* Field f of the element that card c was built for.                        *)
WriteElement(c, f, value) ==
  LET elements == [preset.elements EXCEPT ![cards[c].i] = [@ EXCEPT ![f] = value]] IN
  /\ preset' = [name |-> "Custom", elements |-> elements]
  /\ DrawElements(elements)

TypeInElement(c, f, text) ==
  /\ EditElements
  /\ IF Valid(f, text)
     THEN /\ cards' = [cards EXCEPT ![c].text[f] = text, ![c].invalid = @ \ {f}]
          /\ WriteElement(c, f, text)
     ELSE /\ cards' = [cards EXCEPT ![c].text[f] = text, ![c].invalid = @ \cup {f}]
          /\ UNCHANGED <<preset, globe>>
  /\ UNCHANGED <<info, marked>>

(* The radio buttons of a card, or their labels: for="type-single" finds    *)
(* the first element of that id, on the first card.                         *)
ChooseType(c, type) ==
  /\ EditElements
  /\ \E d \in {c, 1} :
       /\ cards' = [cards EXCEPT ![d].type = type]
       /\ WriteElement(d, "type", type)
  /\ marked' = "none"
  /\ UNCHANGED info

ChooseColor(c, color) ==
  /\ EditElements
  /\ cards' = [cards EXCEPT ![c].color = color]
  /\ WriteElement(c, "color", color)
  /\ UNCHANGED <<info, marked>>

-----------------------------------------------------------------------------
(* getGSHTML.                                                               *)
StationCard(o, i) ==
  [i |-> i, name |-> o.name, text |-> [f \in StationFields |-> o[f]],
   invalid |-> {}, color |-> o.color]

(* applyGroundStations.                                                     *)
ApplyGroundStations(os, list) ==
  /\ objects' = os
  /\ listed' = list
  /\ stationCards' = [i \in DOMAIN list |-> StationCard(os[list[i]], i)]
  /\ DrawStations(os, list)

(* The name is counted; the second station of a name gets the number 2.     *)
Count(name) == taken' = [taken EXCEPT ![name] = @ + 1]
UniqueName(name, k) == IF k = 1 THEN name ELSE Suffixed(name, k)
NextUniqueName(name) == UniqueName(name, taken[name] + 1)

(* addGroundStation of the object at position o.                            *)
AddGroundStation(os, o) ==
  /\ Count(os[o].name)
  /\ ApplyGroundStations(
       [os EXCEPT ![o] = [@ EXCEPT !.uniqueName = NextUniqueName(os[o].name)]],
       Append(listed, o))

EditStations == Edit /\ UNCHANGED <<elementVars, settingVars>>

AddPresetStation(o) == EditStations /\ Enabled /\ AddGroundStation(objects, o)

Custom(lat, lon) == Station(Name("Custom"), Name("Custom"), lat, lon, "yellow")

AddCustomStation ==
  /\ EditStations /\ Enabled
  /\ AddGroundStation(Append(objects, Custom(0, 0)), Len(objects) + 1)

(* Seeded fault: the handler does not look at disabled. *)
ClickGlobeAlways(lat, lon) ==
  /\ EditStations
  /\ AddGroundStation(Append(objects, Custom(lat, lon)), Len(objects) + 1)

(* handleClick on the terrain: the canvas is not disabled, the handler      *)
(* asks.                                                                    *)
ClickGlobe(lat, lon) ==
  /\ EditStations /\ ~disabled
  /\ AddGroundStation(Append(objects, Custom(lat, lon)), Len(objects) + 1)

(* Seeded fault: the cards behind the one that is closed keep data-i. *)
CloseStationCard(c) ==
  /\ EditStations /\ Enabled
  /\ listed' = RemoveAt(listed, stationCards[c].i)
  /\ stationCards' = RemoveAt(stationCards, c)
  /\ DrawStations(objects, listed')
  /\ UNCHANGED <<objects, taken>>

CloseStation(c) ==
  /\ EditStations /\ Enabled
  /\ ApplyGroundStations(objects, RemoveAt(listed, stationCards[c].i))
  /\ UNCHANGED taken

Target(c) == listed[stationCards[c].i]

(* Seeded fault: a new name is not counted. *)
ChangeGroundStationNameOnly(o, name) ==
  /\ objects' = [objects EXCEPT ![o] = [@ EXCEPT !.name = name, !.uniqueName = name]]
  /\ UNCHANGED taken

(* changeGroundStationName, of the object at the position of the card.      *)
ChangeGroundStationName(o, name) ==
  /\ objects' = [objects EXCEPT ![o] = [@ EXCEPT !.name = name,
                                                 !.uniqueName = NextUniqueName(name)]]
  /\ Count(name)

TypeName(c, name) ==
  /\ EditStations /\ Enabled
  /\ IF name # Name("")
     THEN /\ stationCards' = [stationCards EXCEPT ![c].name = name, ![c].invalid = @ \ {"name"}]
          /\ ChangeGroundStationName(Target(c), name)
     ELSE /\ stationCards' = [stationCards EXCEPT ![c].name = name, ![c].invalid = @ \cup {"name"}]
          /\ UNCHANGED <<objects, taken>>
  /\ UNCHANGED <<listed, globe>>

(* Seeded fault: the station is not applied to the globe. *)
WriteStationOnly(c, f, value) ==
  /\ objects' = [objects EXCEPT ![Target(c)] = [@ EXCEPT ![f] = value]]
  /\ UNCHANGED globe

WriteStation(c, f, value) ==
  LET os == [objects EXCEPT ![Target(c)] = [@ EXCEPT ![f] = value]] IN
  /\ objects' = os
  /\ DrawStations(os, listed)

TypeCoordinate(c, f, text) ==
  /\ EditStations /\ Enabled
  /\ IF Valid(f, text)
     THEN /\ stationCards' = [stationCards EXCEPT ![c].text[f] = text, ![c].invalid = @ \ {f}]
          /\ WriteStation(c, f, text)
     ELSE /\ stationCards' = [stationCards EXCEPT ![c].text[f] = text, ![c].invalid = @ \cup {f}]
          /\ UNCHANGED <<objects, globe>>
  /\ UNCHANGED <<listed, taken>>

(* The color of a station stands for its traffic.                           *)
ChooseTraffic(c, color) ==
  /\ EditStations /\ Enabled
  /\ stationCards' = [stationCards EXCEPT ![c].color = color]
  /\ WriteStation(c, "color", color)
  /\ UNCHANGED <<listed, taken>>

-----------------------------------------------------------------------------
(* Duration and interval are parsed, the time scale is taken as it stands.  *)
TypeSetting(f, text) ==
  /\ Edit /\ Enabled
  /\ settingInputs' = [settingInputs EXCEPT ![f] = [text |-> text, invalid |-> ~Valid(f, text)]]
  /\ settings' = IF ~Valid(f, text) THEN settings
                 ELSE [settings EXCEPT ![f] = IF f = "timeScale" THEN text ELSE ParseInt(text)]
  /\ UNCHANGED <<elementVars, stationVars, globe>>

DefaultSettings ==
  [timeScale |-> Number(1000), duration |-> Number(10), interval |-> Number(10)]

InitConfiguration ==
  /\ preset = Library.iridium
  /\ info = Library.iridium.name
  /\ marked = "iridium"
  /\ cards = ElementCards(preset.elements)
  /\ objects = StationPresets
  /\ listed = <<1, 2, 3>>
  /\ taken = [n \in TypedNames \cup {Name("Custom")} \cup {o.name : o \in ToSet(objects)} |->
                IF \E o \in ToSet(objects) : o.name = n THEN 1 ELSE 0]
  /\ stationCards = [i \in 1 .. 3 |-> StationCard(objects[i], i)]
  /\ settings = DefaultSettings
  /\ settingInputs = [f \in SettingFields |-> [text |-> DefaultSettings[f], invalid |-> FALSE]]
  /\ globe = [rings |-> Configure(preset.elements), stations |-> Placemarks(objects, listed)]
  /\ disabled = FALSE
  /\ edits = 0

ChangeElements ==
  \/ \E p \in DOMAIN Library : ChoosePreset(p)
  \/ AddElement
  \/ \E c \in DOMAIN cards :
       \/ CloseElement(c)
       \/ \E f \in ElementFields : \E text \in InputOf(f, cards[c].text[f]) :
            TypeInElement(c, f, text)
       \/ \E type \in Types : ChooseType(c, type)
       \/ \E color \in Colors : ChooseColor(c, color)

ChangeStations ==
  \/ \E o \in DOMAIN StationPresets : AddPresetStation(o)
  \/ AddCustomStation
  \/ ClickGlobe(300, 600)
  \/ \E c \in DOMAIN stationCards :
       \/ CloseStation(c)
       \/ \E name \in TypedNames : TypeName(c, name)
       \/ \E f \in StationFields : \E text \in InputOf(f, stationCards[c].text[f]) :
            TypeCoordinate(c, f, text)
       \/ \E color \in {"red", "yellow", "green"} : ChooseTraffic(c, color)

ChangeSettings ==
  \E f \in SettingFields : \E text \in InputOf(f, settingInputs[f].text) : TypeSetting(f, text)

(* The user changes something.                                              *)
Configures == ChangeElements \/ ChangeStations \/ ChangeSettings
=============================================================================
