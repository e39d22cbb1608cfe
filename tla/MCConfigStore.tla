--------------------------- MODULE MCConfigStore ---------------------------
(***************************************************************************)
(* Small instances of ConfigStore. Each run turns one family of operations *)
(* on: an empty set of inputs turns a family off.                          *)
(***************************************************************************)
EXTENDS ConfigStore, TLC

Nothing == {}

\* One name is enough for ids that clash, one station to tell an edited working set
\* from a saved one.
MCSlug == "Jazz!" :> "jazz"
MCSuffixed(s, i) == s \o "-" \o ToString(i)
ThreeIDs == {"jazz", "jazz-2", "jazz-3"}
TwoIDs   == {"jazz", "rock"}

MCTrim(n) == CASE n = " A" -> "A" [] n = " " -> "" [] OTHER -> n

Jazz == [id |-> "jazz", name |-> "Jazz!"]

MCFactory ==
  << [name |-> "PalmaSola", stations |-> <<Jazz>>,
      presets |-> [k \in Slots |-> "jazz"]],
     [name |-> "Autres", stations |-> <<>>, presets |-> EmptyPresets] >>

\* The config.yaml of the README: a speaker, a station and a preset.
Readme == [EmptyConfig EXCEPT !.speakers = <<[name |-> "A", ip |-> "ip1"]>>,
                              !.stations = <<Jazz>>,
                              !.presets = [k \in Slots |-> "jazz"]]

Fresh         == {NoFile}
FreshOrReadme == {NoFile, Readme}
=============================================================================
