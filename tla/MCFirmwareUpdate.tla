-------------------------- MODULE MCFirmwareUpdate ---------------------------
(* The web server and the MQTT task, and two releases, of which the newer   *)
(* may not be out yet.                                                      *)
EXTENDS FirmwareUpdate

CONSTANTS web, mqtt

MCCallers == {web, mqtt}
MCReleases == {1, 2}
MCFeeds == {<<1>>, <<2, 1>>}
MCOneFeed == {<<2, 1>>}
=============================================================================
