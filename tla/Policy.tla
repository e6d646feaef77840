-------------------------------- MODULE Policy --------------------------------
(***************************************************************************)
(* Capabilities and how a grant narrows them: crates/ras-policy.  A         *)
(* capability the catalogue does not name never survives into a grant, and  *)
(* every step is an intersection.                                           *)
(***************************************************************************)

(* The versioned catalogue of capability names.                             *)
Catalogue ==
  { "screen.view", "screen.select_monitor", "pointer.virtual",
    "annotation.create", "pointer.move", "pointer.click", "pointer.scroll",
    "keyboard.key", "keyboard.text", "clipboard.read", "clipboard.write",
    "file.upload", "file.download", "action.request", "control.request",
    "control.transfer", "session.invite", "recording.start",
    "recording.stop", "audio.listen", "audio.mic.capture",
    "video.camera.capture" }

(* The open family file.push.<target>.  "drop" stands for the well-formed   *)
(* target names; the application declares exactly that one.                 *)
FilePushCapabilities == { "file.push.drop" }

IsRecognized(cap) == cap \in Catalogue \cup FilePushCapabilities

Recognize(requested) == { cap \in requested : IsRecognized(cap) }

Intersect(requested, policy) == requested \cap policy

(* What may be granted: requested, recognised, allowed and consented.       *)
Grantable(requested, policy, consented) ==
  Intersect(Intersect(Recognize(requested), policy), consented)

(* The per-message gate of a clipboard push, by direction.                  *)
ClipboardPushAllowed(direction, granted) ==
  (IF direction = "ControllerToHost" THEN "clipboard.write"
                                     ELSE "clipboard.read") \in granted

===============================================================================
