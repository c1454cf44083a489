----------------------------- MODULE MCPresetMorph -----------------------------
(* TLC instance of PresetMorph: one client, two presets that share a parameter *)
EXTENDS PresetMorph, TLC

CONSTANTS c1, x, y, p, q

MCClient == {c1}
MCParam == {x, y}
MCPreset == {p, q}
MCStored == (p :> {x, y}) @@ (q :> {x})

=============================================================================
