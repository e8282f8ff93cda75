---------------------------- MODULE MCAudioMixer ----------------------------
(* TLC instance of AudioMixer: a sound and a track, and one voice for them. *)
EXTENDS AudioMixer
=============================================================================
