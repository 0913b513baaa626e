---------------------------- MODULE MCAudioBeep ----------------------------
(* The start-up of audio-beep with all of its register writes, and its loop. *)
EXTENDS AudioBeep

MCScript == setup_audio \o dump_audio
=============================================================================
