----------------------------- MODULE MCFirmware -----------------------------
\* Bytes of the firmware, blocks and headers of one: see MCFirmware.cfg.
EXTENDS Firmware

MCAtr == <<{0, 1, 3, 4, 5}>>                       \* 3B
MCCoded == [ins |-> {0, 1, 2, 3, 5, 6, 7},         \* 239
            sw61 |-> {0, 5, 6}, sw10 |-> {4}, c0 |-> {6, 7},
            sw9d |-> {0, 2, 3, 4, 7}, sw00 |-> {}]
MCHeader == {{5, 7}}
MCData == {{7}}
MCAes(b) == [i \in DOMAIN b |-> (0..7) \ b[i]]
MCNowhere == {}
MCStale == {255}
=============================================================================
