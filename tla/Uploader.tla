------------------------------ MODULE Uploader ------------------------------
(* video-uploader.sh: one person runs it again and again in one directory.   *)
(* It asks for a title and a kind of tutorial, publishes a WordPress post,   *)
(* makes a folder for the video and fills it with a banner, a cover and two  *)
(* clips, and asks whether to upload.  bash is told neither to stop at a     *)
(* failing command nor to clean up when it is killed, so every command may   *)
(* fail and the next one still runs, and a run may end after any command.  A *)
(* command does its work or none of it: a half-written file is not modelled. *)
(* addcoverimg.py, run by hand, replaces image.png at any time.              *)
(*                                                                           *)
(* File contents are abstracted to what they were made from.  ImageMagick,   *)
(* cp, rm and the WordPress site are external.                               *)
EXTENDS Naturals, Sequences, FiniteSets

CONSTANTS
    Title,          \* what may be typed as the title
    Folder,         \* what a title becomes: spaces turned into underscores
    FolderOf,       \* the folder of each title
    TopFolder,      \* the folder of the empty title: where the videos are
    BadQuotes,      \* titles whose quotes break the Python text they land in
    NoTitle, NoType,
    Tutorial,       \* the kinds of tutorial, each with its cover template
    MaxRuns         \* bound on the number of runs

ASSUME FolderAssumption ==
    FolderOf \in [Title -> Folder] /\ TopFolder \in Folder
ASSUME TitleAssumption ==
    BadQuotes \subseteq Title /\ NoTitle \notin Title /\ NoType \notin Tutorial
ASSUME MaxRunsAssumption == MaxRuns \in Nat

VARIABLES
    at,             \* the command of the script that is next; "off" if none
    run,            \* number of runs so far
    title, typeoftutorial,
    image,          \* what image.png is
    banner,         \* news_banner.png in the directory: its title
    cover,          \* video_cover.png in the directory
    saved,          \* the folders under videosavelocation
    media,          \* the site's media library: items 1..media
    mediaId,        \* media_id in the poster, 0 while it is not defined
    posts,          \* the posts published
    trouble         \* history: a command of this run has failed, not counting
                    \* the overlay's and mkdir on a folder that is there

scriptVars == <<run, title, typeoftutorial, mediaId>>
workVars   == <<image, banner, cover>>
siteVars   == <<media, posts>>
vars == <<at, scriptVars, workVars, saved, siteVars, trouble>>

\* image.png as committed, or a file picked later.
Image == {"committed", "selected"}

NoCover == [title |-> NoTitle, type |-> NoType, overlay |-> "none"]
Cover == [title : Title, type : Tutorial, overlay : Image \cup {"none"}]

\* What there is of a folder's name, and in it if it is a folder.
Contents == [kind : {"absent", "dir", "file"}, banner : Title \cup {NoTitle},
             cover : Cover \cup {NoCover},
             clips : SUBSET {"inclip", "outclip"}]
Nothing == [kind |-> "absent", banner |-> NoTitle, cover |-> NoCover,
            clips |-> {}]

Post == [run : 1..MaxRuns, title : Title, media : Nat]

Commands == {"off", "type", "select", "media", "post", "mkdir", "banner",
             "cpBanner", "rmBanner", "cover", "overlay", "cpCover", "rmCover",
             "inclip", "outclip", "record", "prompt"}

TypeOK ==
    /\ at \in Commands
    /\ run \in 0..MaxRuns
    /\ run = 0 => at = "off"
    /\ title \in Title \cup {NoTitle}
    /\ at = "off" <=> title = NoTitle
    /\ typeoftutorial \in Tutorial \cup {NoType}
    /\ at \in {"off", "type"} <=> typeoftutorial = NoType
    /\ image \in Image
    /\ banner \in Title \cup {NoTitle}
    /\ cover \in Cover \cup {NoCover}
    /\ saved \in [Folder -> Contents]
    /\ media \in Nat
    /\ mediaId \in Nat
    /\ posts \in Seq(Post)
    /\ trouble \in BOOLEAN

Init ==
    /\ at = "off" /\ run = 0
    /\ title = NoTitle /\ typeoftutorial = NoType
    /\ image = "committed"
    /\ banner = NoTitle /\ cover = NoCover
    /\ saved = [f \in Folder |->
                  IF f = TopFolder
                  THEN [Nothing EXCEPT !.kind = "dir",
                                       !.clips = {"inclip", "outclip"}]
                  ELSE Nothing]
    /\ media = 0 /\ mediaId = 0 /\ posts = <<>>
    /\ trouble = FALSE

-----------------------------------------------------------------------------
(* Helpers *)

titlefolder == FolderOf[title]

Goto(from, to) == at = from /\ at' = to

\* A command that leaves nothing behind.
Passes(from, to) ==
    /\ Goto(from, to)
    /\ UNCHANGED <<scriptVars, workVars, saved, siteVars, trouble>>

\* The script ends and its variables with it.
Ends_Mutant(from) ==
    /\ Goto(from, "off")
    /\ UNCHANGED <<run, title, typeoftutorial, mediaId, workVars, saved,
                   siteVars, trouble>>
Ends(from) ==
    /\ Goto(from, "off")
    /\ title' = NoTitle /\ typeoftutorial' = NoType /\ mediaId' = 0
    /\ trouble' = FALSE
    /\ UNCHANGED <<run, workVars, saved, siteVars>>

Works == UNCHANGED trouble
Fails == trouble' = TRUE

\* cp -f of an item: into the folder, or over a plain file of that name; if
\* there is nothing of that name, cp makes a plain file.
Put(item, content) ==
    LET old == saved[titlefolder] IN
    saved' = [saved EXCEPT ![titlefolder] =
        IF old.kind # "dir" THEN [old EXCEPT !.kind = "file"]
        ELSE CASE item = "banner" -> [old EXCEPT !.banner = content]
               [] item = "cover"  -> [old EXCEPT !.cover = content]
               [] OTHER -> [old EXCEPT !.clips = old.clips \cup {content}]]

-----------------------------------------------------------------------------
(* The prompts *)

EnterTitle(t) ==
    /\ Goto("off", "type")
    /\ run < MaxRuns
    /\ run' = run + 1
    /\ title' = t
    /\ UNCHANGED <<typeoftutorial, mediaId, workVars, saved, siteVars,
                   trouble>>

SelectType(k) ==
    /\ Goto("type", "select")
    /\ typeoftutorial' = k
    /\ UNCHANGED <<run, title, mediaId, workVars, saved, siteVars, trouble>>

InvalidSelection == Ends("type")

\* The embedded selector's fzf finds the end of the embedded text on its
\* standard input, so there is nothing to select and image.png stays.
SelectImage == Passes("select", "media")

-----------------------------------------------------------------------------
(* The WordPress poster *)

\* Without media_id the script ends with a NameError.
MediaIdDefined_Mutant == TRUE
MediaIdDefined == mediaId # 0

\* An answer with status 201 sets media_id.  It does not come if the text does
\* not parse, if the picture is missing, if the upload is refused or if the
\* answer to an upload that was made is lost.
UploadMedia ==
    /\ Goto("media", "post")
    /\ \/ /\ title \notin BadQuotes
          /\ media' = media + 1
          /\ \/ mediaId' = media + 1 /\ Works
             \/ UNCHANGED mediaId /\ Fails         \* the answer is lost
       \/ UNCHANGED <<media, mediaId>> /\ Fails
    /\ UNCHANGED <<run, title, typeoftutorial, workVars, saved, posts>>

CreatePost ==
    /\ Goto("post", "mkdir")
    /\ \/ /\ MediaIdDefined
          /\ posts' = Append(posts, [run |-> run, title |-> title,
                                     media |-> mediaId])
          /\ trouble' \in {trouble, TRUE}        \* the answer may be lost
       \/ UNCHANGED posts /\ Fails
    /\ mediaId' = 0
    /\ UNCHANGED <<run, title, typeoftutorial, workVars, saved, media>>

-----------------------------------------------------------------------------
(* The folder and what goes into it *)

\* An existing folder makes mkdir fail, which changes nothing for the rest.
MakeFolder ==
    /\ Goto("mkdir", "banner")
    /\ \/ /\ saved[titlefolder].kind = "absent"
          /\ saved' = [saved EXCEPT ![titlefolder].kind = "dir"]
          /\ Works
       \/ /\ saved[titlefolder].kind = "dir"
          /\ UNCHANGED saved /\ Works
       \/ UNCHANGED saved /\ Fails
    /\ UNCHANGED <<scriptVars, workVars, siteVars>>

ConvertBanner ==
    /\ Goto("banner", "cpBanner")
    /\ \/ banner' = title /\ Works
       \/ UNCHANGED banner /\ Fails
    /\ UNCHANGED <<scriptVars, image, cover, saved, siteVars>>

\* cp without -f, or into what an earlier run has left.
PutBanner_Mutant ==
    IF saved[titlefolder].banner = NoTitle THEN Put("banner", banner)
    ELSE UNCHANGED saved
PutBanner == Put("banner", banner)

CopyBanner ==
    /\ Goto("cpBanner", "rmBanner")
    /\ \/ banner # NoTitle /\ PutBanner /\ Works
       \/ UNCHANGED saved /\ Fails
    /\ UNCHANGED <<scriptVars, workVars, siteVars>>

RemoveBanner ==
    /\ Goto("rmBanner", "cover")
    /\ \/ banner # NoTitle /\ banner' = NoTitle /\ Works
       \/ UNCHANGED banner /\ Fails
    /\ UNCHANGED <<scriptVars, image, cover, saved, siteVars>>

ConvertCover ==
    /\ Goto("cover", "overlay")
    /\ \/ /\ cover' = [title |-> title, type |-> typeoftutorial,
                       overlay |-> "none"]
          /\ Works
       \/ UNCHANGED cover /\ Fails
    /\ UNCHANGED <<scriptVars, image, banner, saved, siteVars>>

\* composite is given the picture and an output name but no background: it
\* reports a missing image, every time, and writes nothing.
AddOverlay == Passes("overlay", "cpCover")

CopyCover ==
    /\ Goto("cpCover", "rmCover")
    /\ \/ cover # NoCover /\ Put("cover", cover) /\ Works
       \/ UNCHANGED saved /\ Fails
    /\ UNCHANGED <<scriptVars, workVars, siteVars>>

RemoveCover ==
    /\ Goto("rmCover", "inclip")
    /\ \/ cover # NoCover /\ cover' = NoCover /\ Works
       \/ UNCHANGED cover /\ Fails
    /\ UNCHANGED <<scriptVars, image, banner, saved, siteVars>>

\* The clips lie in the top folder; for an empty title each would be copied
\* onto itself, which cp refuses.
CopyClip(clip, next) ==
    /\ Goto(clip, next)
    /\ \/ /\ titlefolder # TopFolder
          /\ Put(clip, clip) /\ Works
       \/ UNCHANGED saved /\ Fails
    /\ UNCHANGED <<scriptVars, workVars, siteVars>>

CopyClips == CopyClip("inclip", "outclip") \/ CopyClip("outclip", "record")

\* easyeffects, pavucontrol and obs, each until it is closed.
RecordVideo == Passes("record", "prompt")

\* Either answer ends the script: the upload is not written yet.
StartUpload == Ends("prompt")

-----------------------------------------------------------------------------
(* What happens around the script *)

Killed == at # "off" /\ Ends(at)

\* addcoverimg.py renames the file that is picked to image.png.
AddCoverImage ==
    /\ image' = "selected"
    /\ UNCHANGED <<at, scriptVars, banner, cover, saved, siteVars, trouble>>

Next ==
    \/ \E t \in Title : EnterTitle(t)
    \/ \E k \in Tutorial : SelectType(k)
    \/ InvalidSelection \/ SelectImage
    \/ UploadMedia \/ CreatePost
    \/ MakeFolder \/ ConvertBanner \/ CopyBanner \/ RemoveBanner
    \/ ConvertCover \/ AddOverlay \/ CopyCover \/ RemoveCover \/ CopyClips
    \/ RecordVideo \/ StartUpload
    \/ Killed \/ AddCoverImage

Spec == Init /\ [][Next]_vars
-----------------------------------------------------------------------------
(* Safety *)

\* Every post shows a picture that is in the media library, no two posts
\* share one, and one run of the script never publishes twice.
PostsHaveOwnMedia ==
    /\ \A i \in DOMAIN posts : posts[i].media \in 1..media
    /\ \A i, j \in DOMAIN posts :
         i # j => /\ posts[i].media # posts[j].media
                  /\ posts[i].run # posts[j].run

\* If no command of this run has failed, then at the last prompt the folder
\* holds this title's banner and cover and both clips, the post is published
\* and no work file is left behind, whatever earlier runs that were killed or
\* failed, or used the same folder, have left.
PreparedAtPrompt ==
    at = "prompt" /\ ~trouble =>
      /\ saved[titlefolder].kind = "dir"
      /\ saved[titlefolder].banner = title
      /\ saved[titlefolder].cover.title = title
      /\ saved[titlefolder].cover.type = typeoftutorial
      /\ saved[titlefolder].clips = {"inclip", "outclip"}
      /\ banner = NoTitle /\ cover = NoCover
      /\ \E i \in DOMAIN posts : posts[i].run = run /\ posts[i].title = title
=============================================================================
