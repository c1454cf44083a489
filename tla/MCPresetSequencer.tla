--------------------------- MODULE MCPresetSequencer ---------------------------
(* TLC instance of PresetSequencer: sequences of up to two steps *)
EXTENDS PresetSequencer

MCSequences == {<<>>, <<"PRESET">>, <<"PRESET", "EVENT">>}

=============================================================================
