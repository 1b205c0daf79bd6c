--------------------------- MODULE UploaderProofs ---------------------------
(* Proofs about Uploader for any titles, folders and kinds of tutorial: what *)
(* the site and the folders hold after any number of runs that were killed   *)
(* or failed anywhere.                                                       *)
EXTENDS Uploader, SequenceTheorems, TLAPS

\* The commands from the one after which the named part of the folder or of
\* the directory is as PreparedAtPrompt wants it.
AfterOutclip  == {"record", "prompt"}
AfterInclip   == {"outclip"} \cup AfterOutclip
AfterRmCover  == {"inclip"} \cup AfterInclip
AfterCpCover  == {"rmCover"} \cup AfterRmCover
AfterCover    == {"overlay", "cpCover"} \cup AfterCpCover
AfterRmBanner == {"cover"} \cup AfterCover
AfterCpBanner == {"rmBanner"} \cup AfterRmBanner
AfterMkdir    == {"banner", "cpBanner"} \cup AfterCpBanner
AfterPost     == {"mkdir"} \cup AfterMkdir
BeforePost    == {"type", "select", "media", "post"}

\* What the poster's variable and the site have to do with each other.
SiteInv ==
    /\ mediaId # 0 => at = "post" /\ mediaId \in 1..media
    /\ \A i \in DOMAIN posts : /\ posts[i].media \in 1..media
                               /\ posts[i].media # mediaId
                               /\ posts[i].run \in 1..run
                               /\ at \in BeforePost => posts[i].run # run
    /\ \A i, j \in DOMAIN posts :
         i # j => /\ posts[i].media # posts[j].media
                  /\ posts[i].run # posts[j].run

\* The post of a run without trouble exists from CreatePost on.
PostedInv ==
    /\ at = "post" /\ ~trouble => mediaId # 0
    /\ at \in AfterPost /\ ~trouble =>
         \E i \in DOMAIN posts : posts[i].run = run /\ posts[i].title = title

\* What a run without trouble has got done by each command.
FolderInv ==
    ~trouble =>
      /\ at \in AfterMkdir => saved[titlefolder].kind = "dir"
      /\ at = "cpBanner" => banner = title
      /\ at \in AfterCpBanner => saved[titlefolder].banner = title
      /\ at \in AfterRmBanner => banner = NoTitle
      /\ at \in {"overlay", "cpCover"} =>
           cover.title = title /\ cover.type = typeoftutorial
      /\ at \in AfterCpCover =>
           /\ saved[titlefolder].cover.title = title
           /\ saved[titlefolder].cover.type = typeoftutorial
      /\ at \in AfterRmCover => cover = NoCover
      /\ at \in AfterInclip => "inclip" \in saved[titlefolder].clips
      /\ at \in AfterOutclip => "outclip" \in saved[titlefolder].clips

IInv == TypeOK /\ SiteInv /\ PostedInv /\ FolderInv

-----------------------------------------------------------------------------
(* Lemmas *)

\* cp keeps the types, touches only the title's folder and, if that is a
\* directory, stores the item in it and keeps the other items.
LEMMA PutBannerFacts ==
    ASSUME TypeOK, title \in Title, NEW content \in Title,
           Put("banner", content)
    PROVE  /\ saved' \in [Folder -> Contents]
           /\ saved[titlefolder].kind = "dir" =>
                saved'[titlefolder] =
                  [saved[titlefolder] EXCEPT !.banner = content]
<1> USE FolderAssumption
<1>1. titlefolder \in Folder
  BY DEF titlefolder
<1>2. saved \in [Folder -> Contents]
  BY DEF TypeOK
<1>3. saved[titlefolder] \in Contents
  BY <1>1, <1>2
<1>4. [saved[titlefolder] EXCEPT !.banner = content] \in Contents
  BY <1>3 DEF Contents
<1>5. [saved[titlefolder] EXCEPT !.kind = "file"] \in Contents
  BY <1>3 DEF Contents
<1> QED
  BY <1>1, <1>2, <1>3, <1>4, <1>5 DEF Put

\* The same for the cover.
LEMMA PutCoverFacts ==
    ASSUME TypeOK, title \in Title, NEW content \in Cover,
           Put("cover", content)
    PROVE  /\ saved' \in [Folder -> Contents]
           /\ saved[titlefolder].kind = "dir" =>
                saved'[titlefolder] =
                  [saved[titlefolder] EXCEPT !.cover = content]
<1> USE FolderAssumption
<1>1. titlefolder \in Folder
  BY DEF titlefolder
<1>2. saved \in [Folder -> Contents]
  BY DEF TypeOK
<1>3. saved[titlefolder] \in Contents
  BY <1>1, <1>2
<1>4. [saved[titlefolder] EXCEPT !.cover = content] \in Contents
  BY <1>3 DEF Contents
<1>5. [saved[titlefolder] EXCEPT !.kind = "file"] \in Contents
  BY <1>3 DEF Contents
<1> QED
  BY <1>1, <1>2, <1>3, <1>4, <1>5 DEF Put

\* The same for a clip, which joins the other one.
LEMMA PutClipFacts ==
    ASSUME TypeOK, title \in Title, NEW clip \in {"inclip", "outclip"},
           Put(clip, clip)
    PROVE  /\ saved' \in [Folder -> Contents]
           /\ saved[titlefolder].kind = "dir" =>
                saved'[titlefolder] =
                  [saved[titlefolder] EXCEPT
                     !.clips = saved[titlefolder].clips \cup {clip}]
<1> USE FolderAssumption
<1>1. titlefolder \in Folder
  BY DEF titlefolder
<1>2. saved \in [Folder -> Contents]
  BY DEF TypeOK
<1>3. saved[titlefolder] \in Contents
  BY <1>1, <1>2
<1>4. [saved[titlefolder] EXCEPT
         !.clips = saved[titlefolder].clips \cup {clip}] \in Contents
  BY <1>3 DEF Contents
<1>5. [saved[titlefolder] EXCEPT !.kind = "file"] \in Contents
  BY <1>3 DEF Contents
<1>6. clip # "banner" /\ clip # "cover"
  OBVIOUS
<1> QED
  BY <1>1, <1>2, <1>3, <1>4, <1>5, <1>6 DEF Put

-----------------------------------------------------------------------------
(* The invariant is inductive *)

\* Every step keeps the types.
LEMMA TypePreserved ==
    ASSUME TypeOK, [Next]_vars PROVE TypeOK'
<1> USE FolderAssumption, TitleAssumption, MaxRunsAssumption
       DEF vars, scriptVars, workVars, siteVars, Goto, Works, Fails
<1>1. ASSUME NEW t \in Title, EnterTitle(t) PROVE TypeOK'
  BY <1>1 DEF EnterTitle, TypeOK, Commands
<1>2. ASSUME NEW k \in Tutorial, SelectType(k) PROVE TypeOK'
  BY <1>2 DEF SelectType, TypeOK, Commands
<1>3. CASE InvalidSelection
  BY <1>3 DEF InvalidSelection, Ends, TypeOK, Commands
<1>4. CASE SelectImage
  BY <1>4 DEF SelectImage, Passes, TypeOK, Commands
<1>5. CASE UploadMedia
  <2>1. media' \in Nat /\ mediaId' \in Nat
    BY <1>5 DEF UploadMedia, TypeOK
  <2>2. trouble' \in BOOLEAN
    BY <1>5 DEF UploadMedia, TypeOK
  <2> QED
    BY <1>5, <2>1, <2>2 DEF UploadMedia, TypeOK, Commands
<1>6. CASE CreatePost
  <2>1. run \in 1..MaxRuns /\ title \in Title
    BY <1>6 DEF CreatePost, TypeOK
  <2>2. [run |-> run, title |-> title, media |-> mediaId] \in Post
    BY <2>1 DEF Post, TypeOK
  <2>3. posts' = Append(posts, [run |-> run, title |-> title,
                               media |-> mediaId]) \/ posts' = posts
    BY <1>6 DEF CreatePost
  <2>4. posts' \in Seq(Post)
    BY <2>2, <2>3 DEF TypeOK
  <2> QED
    BY <1>6, <2>4 DEF CreatePost, TypeOK, Commands
<1>7. CASE MakeFolder
  <2>1. titlefolder \in Folder
    BY <1>7 DEF MakeFolder, TypeOK, titlefolder
  <2>2. saved[titlefolder] \in Contents
    BY <2>1 DEF TypeOK
  <2>3. [saved[titlefolder] EXCEPT !.kind = "dir"] \in Contents
    BY <2>2 DEF Contents
  <2>4. saved' \in [Folder -> Contents]
    BY <1>7, <2>1, <2>3 DEF MakeFolder, TypeOK
  <2> QED
    BY <1>7, <2>4 DEF MakeFolder, TypeOK, Commands
<1>8. CASE ConvertBanner
  BY <1>8 DEF ConvertBanner, TypeOK, Commands
<1>9. CASE CopyBanner
  <2>1. title \in Title
    BY <1>9 DEF CopyBanner, TypeOK
  <2>2. banner # NoTitle => banner \in Title
    BY DEF TypeOK
  <2>3. saved' \in [Folder -> Contents]
    BY <1>9, <2>1, <2>2, PutBannerFacts DEF CopyBanner, PutBanner, TypeOK
  <2> QED
    BY <1>9, <2>3 DEF CopyBanner, TypeOK, Commands
<1>10. CASE RemoveBanner
  BY <1>10 DEF RemoveBanner, TypeOK, Commands
<1>11. CASE ConvertCover
  <2>1. title \in Title /\ typeoftutorial \in Tutorial
    BY <1>11 DEF ConvertCover, TypeOK
  <2>2. cover' \in Cover \cup {NoCover}
    BY <1>11, <2>1 DEF ConvertCover, TypeOK, Cover
  <2> QED
    BY <1>11, <2>2 DEF ConvertCover, TypeOK, Commands
<1>12. CASE AddOverlay
  BY <1>12 DEF AddOverlay, Passes, TypeOK, Commands
<1>13. CASE CopyCover
  <2>1. title \in Title
    BY <1>13 DEF CopyCover, TypeOK
  <2>2. cover # NoCover => cover \in Cover
    BY DEF TypeOK
  <2>3. saved' \in [Folder -> Contents]
    BY <1>13, <2>1, <2>2, PutCoverFacts DEF CopyCover, TypeOK
  <2> QED
    BY <1>13, <2>3 DEF CopyCover, TypeOK, Commands
<1>14. CASE RemoveCover
  BY <1>14 DEF RemoveCover, TypeOK, Commands
<1>15. CASE CopyClip("inclip", "outclip")
  <2>1. title \in Title
    BY <1>15 DEF CopyClip, TypeOK
  <2>2. Put("inclip", "inclip") => saved' \in [Folder -> Contents]
    BY <2>1, PutClipFacts
  <2>3. saved' \in [Folder -> Contents]
    BY <1>15, <2>2 DEF CopyClip, TypeOK
  <2> QED
    BY <1>15, <2>3 DEF CopyClip, TypeOK, Commands
<1>16. CASE CopyClip("outclip", "record")
  <2>1. title \in Title
    BY <1>16 DEF CopyClip, TypeOK
  <2>2. Put("outclip", "outclip") => saved' \in [Folder -> Contents]
    BY <2>1, PutClipFacts
  <2>3. saved' \in [Folder -> Contents]
    BY <1>16, <2>2 DEF CopyClip, TypeOK
  <2> QED
    BY <1>16, <2>3 DEF CopyClip, TypeOK, Commands
<1>17. CASE RecordVideo
  BY <1>17 DEF RecordVideo, Passes, TypeOK, Commands
<1>18. CASE StartUpload
  BY <1>18 DEF StartUpload, Ends, TypeOK, Commands
<1>19. CASE Killed
  BY <1>19 DEF Killed, Ends, TypeOK, Commands
<1>20. CASE AddCoverImage
  BY <1>20 DEF AddCoverImage, TypeOK, Image
<1>21. CASE UNCHANGED vars
  BY <1>21 DEF TypeOK, Commands
<1> QED
  BY <1>1, <1>2, <1>3, <1>4, <1>5, <1>6, <1>7, <1>8, <1>9, <1>10, <1>11,
     <1>12, <1>13, <1>14, <1>15, <1>16, <1>17, <1>18, <1>19, <1>20, <1>21
     DEF Next, CopyClips

\* Every step keeps what ties the posts to the media library.
LEMMA SitePreserved ==
    ASSUME TypeOK, SiteInv, [Next]_vars PROVE SiteInv'
<1> USE FolderAssumption, TitleAssumption DEF vars, scriptVars, workVars,
       siteVars, Goto, Works, Fails, SiteInv, BeforePost
<1>1. ASSUME NEW t \in Title, EnterTitle(t) PROVE SiteInv'
  BY <1>1 DEF EnterTitle, TypeOK
<1>2. ASSUME NEW k \in Tutorial, SelectType(k) PROVE SiteInv'
  BY <1>2 DEF SelectType, TypeOK
<1>3. CASE InvalidSelection
  BY <1>3 DEF InvalidSelection, Ends, TypeOK
<1>4. CASE SelectImage
  BY <1>4 DEF SelectImage, Passes, TypeOK
<1>5. CASE UploadMedia
  BY <1>5 DEF UploadMedia, TypeOK
<1>6. CASE CreatePost
  <2>1. CASE MediaIdDefined /\ posts' = Append(posts, [run |-> run,
                       title |-> title, media |-> mediaId])
    <3>1. run \in 1..MaxRuns /\ mediaId \in 1..media
      BY <1>6, <2>1 DEF CreatePost, TypeOK, MediaIdDefined
    <3>2. /\ Len(posts') = Len(posts) + 1
          /\ \A i \in 1..Len(posts) : posts'[i] = posts[i]
          /\ posts'[Len(posts) + 1] = [run |-> run, title |-> title,
                                      media |-> mediaId]
      BY <2>1 DEF TypeOK
    <3>3. DOMAIN posts = 1..Len(posts) /\ DOMAIN posts' = 1..Len(posts')
      BY <2>1 DEF TypeOK
    <3>4. Len(posts) \in Nat
      BY DEF TypeOK
    <3>5. /\ at = "post" /\ at' = "mkdir" /\ mediaId' = 0
          /\ run' = run /\ media' = media
      BY <1>6 DEF CreatePost
    <3> DEFINE n == Len(posts) + 1
    <3>6. posts'[n].run = run /\ posts'[n].media = mediaId
      BY <3>2
    <3>7. DOMAIN posts' = DOMAIN posts \cup {n} /\ n \notin DOMAIN posts
      BY <3>2, <3>3, <3>4
    <3>8. \A i \in DOMAIN posts : posts'[i] = posts[i]
      BY <3>2, <3>3
    <3>9. \A i \in DOMAIN posts : /\ posts[i].media \in 1..media
                                  /\ posts[i].media # mediaId
                                  /\ posts[i].run \in 1..run
                                  /\ posts[i].run # run
      BY <3>5 DEF SiteInv
    <3> HIDE DEF n
    <3>10. \A i \in DOMAIN posts' :
              posts'[i].media \in 1..media /\ posts'[i].media # 0
      BY <3>1, <3>6, <3>7, <3>8, <3>9 DEF TypeOK
    <3>11. \A i \in DOMAIN posts' : posts'[i].run \in 1..run
      BY <3>1, <3>6, <3>7, <3>8, <3>9 DEF TypeOK
    <3>12. \A i, j \in DOMAIN posts' :
              i # j => /\ posts'[i].media # posts'[j].media
                       /\ posts'[i].run # posts'[j].run
      BY <3>6, <3>7, <3>8, <3>9 DEF SiteInv
    <3> QED
      BY <3>5, <3>10, <3>11, <3>12 DEF SiteInv
  <2>2. CASE posts' = posts
    BY <1>6, <2>2 DEF CreatePost, TypeOK
  <2> QED
    BY <1>6, <2>1, <2>2 DEF CreatePost
<1>7. CASE MakeFolder
  BY <1>7 DEF MakeFolder, TypeOK
<1>8. CASE ConvertBanner
  BY <1>8 DEF ConvertBanner, TypeOK
<1>9. CASE CopyBanner
  BY <1>9 DEF CopyBanner, PutBanner, TypeOK
<1>10. CASE RemoveBanner
  BY <1>10 DEF RemoveBanner, TypeOK
<1>11. CASE ConvertCover
  BY <1>11 DEF ConvertCover, TypeOK
<1>12. CASE AddOverlay
  BY <1>12 DEF AddOverlay, Passes, TypeOK
<1>13. CASE CopyCover
  BY <1>13 DEF CopyCover, TypeOK
<1>14. CASE RemoveCover
  BY <1>14 DEF RemoveCover, TypeOK
<1>15. CASE CopyClip("inclip", "outclip")
  BY <1>15 DEF CopyClip, TypeOK
<1>16. CASE CopyClip("outclip", "record")
  BY <1>16 DEF CopyClip, TypeOK
<1>17. CASE RecordVideo
  BY <1>17 DEF RecordVideo, Passes, TypeOK
<1>18. CASE StartUpload
  BY <1>18 DEF StartUpload, Ends, TypeOK
<1>19. CASE Killed
  BY <1>19 DEF Killed, Ends, TypeOK
<1>20. CASE AddCoverImage
  BY <1>20 DEF AddCoverImage, TypeOK
<1>21. CASE UNCHANGED vars
  BY <1>21 DEF TypeOK
<1> QED
  BY <1>1, <1>2, <1>3, <1>4, <1>5, <1>6, <1>7, <1>8, <1>9, <1>10, <1>11,
     <1>12, <1>13, <1>14, <1>15, <1>16, <1>17, <1>18, <1>19, <1>20, <1>21
     DEF Next, CopyClips

\* Every step keeps the fact that a run without trouble has published.
LEMMA PostedPreserved ==
    ASSUME TypeOK, PostedInv, [Next]_vars PROVE PostedInv'
<1> USE DEF vars, scriptVars, workVars, siteVars, Goto, Works,
       Fails, PostedInv, AfterPost, AfterMkdir, AfterCpBanner,
       AfterRmBanner, AfterCover, AfterCpCover, AfterRmCover, AfterInclip,
       AfterOutclip
<1>1. ASSUME NEW t \in Title, EnterTitle(t) PROVE PostedInv'
  BY <1>1 DEF EnterTitle, TypeOK
<1>2. ASSUME NEW k \in Tutorial, SelectType(k) PROVE PostedInv'
  BY <1>2 DEF SelectType, TypeOK
<1>3. CASE InvalidSelection
  BY <1>3 DEF InvalidSelection, Ends, TypeOK
<1>4. CASE SelectImage
  BY <1>4 DEF SelectImage, Passes, TypeOK
<1>5. CASE UploadMedia
  BY <1>5 DEF UploadMedia, TypeOK
<1>6. CASE CreatePost
  <2>1. CASE MediaIdDefined /\ posts' = Append(posts, [run |-> run,
                       title |-> title, media |-> mediaId])
    <3>1. Len(posts) + 1 \in DOMAIN posts'
      BY <2>1 DEF TypeOK
    <3>2. posts'[Len(posts) + 1] = [run |-> run, title |-> title,
                                    media |-> mediaId]
      BY <2>1 DEF TypeOK
    <3>3. run' = run /\ title' = title /\ at' = "mkdir"
      BY <1>6 DEF CreatePost
    <3> QED
      BY <3>1, <3>2, <3>3
  <2>2. CASE trouble'
    BY <1>6, <2>2 DEF CreatePost
  <2> QED
    BY <1>6, <2>1, <2>2 DEF CreatePost, TypeOK
<1>7. CASE MakeFolder
  BY <1>7 DEF MakeFolder, TypeOK
<1>8. CASE ConvertBanner
  BY <1>8 DEF ConvertBanner, TypeOK
<1>9. CASE CopyBanner
  BY <1>9 DEF CopyBanner, PutBanner, TypeOK
<1>10. CASE RemoveBanner
  BY <1>10 DEF RemoveBanner, TypeOK
<1>11. CASE ConvertCover
  BY <1>11 DEF ConvertCover, TypeOK
<1>12. CASE AddOverlay
  BY <1>12 DEF AddOverlay, Passes, TypeOK
<1>13. CASE CopyCover
  BY <1>13 DEF CopyCover, TypeOK
<1>14. CASE RemoveCover
  BY <1>14 DEF RemoveCover, TypeOK
<1>15. CASE CopyClip("inclip", "outclip")
  BY <1>15 DEF CopyClip, TypeOK
<1>16. CASE CopyClip("outclip", "record")
  BY <1>16 DEF CopyClip, TypeOK
<1>17. CASE RecordVideo
  BY <1>17 DEF RecordVideo, Passes, TypeOK
<1>18. CASE StartUpload
  BY <1>18 DEF StartUpload, Ends, TypeOK
<1>19. CASE Killed
  BY <1>19 DEF Killed, Ends, TypeOK
<1>20. CASE AddCoverImage
  BY <1>20 DEF AddCoverImage, TypeOK
<1>21. CASE UNCHANGED vars
  BY <1>21 DEF TypeOK
<1> QED
  BY <1>1, <1>2, <1>3, <1>4, <1>5, <1>6, <1>7, <1>8, <1>9, <1>10, <1>11,
     <1>12, <1>13, <1>14, <1>15, <1>16, <1>17, <1>18, <1>19, <1>20, <1>21
     DEF Next, CopyClips

\* Every step keeps the list of what a run without trouble has got done.
LEMMA FolderPreserved ==
    ASSUME TypeOK, FolderInv, [Next]_vars PROVE FolderInv'
<1> USE FolderAssumption, TitleAssumption DEF vars, scriptVars, workVars,
       siteVars, Goto, Works, Fails, FolderInv, AfterMkdir,
       AfterCpBanner, AfterRmBanner, AfterCover, AfterCpCover,
       AfterRmCover, AfterInclip, AfterOutclip
<1>1. ASSUME NEW t \in Title, EnterTitle(t) PROVE FolderInv'
  BY <1>1 DEF EnterTitle, TypeOK, titlefolder
<1>2. ASSUME NEW k \in Tutorial, SelectType(k) PROVE FolderInv'
  BY <1>2 DEF SelectType, TypeOK, titlefolder
<1>3. CASE InvalidSelection
  BY <1>3 DEF InvalidSelection, Ends, TypeOK, titlefolder
<1>4. CASE SelectImage
  BY <1>4 DEF SelectImage, Passes, TypeOK, titlefolder
<1>5. CASE UploadMedia
  BY <1>5 DEF UploadMedia, TypeOK, titlefolder
<1>6. CASE CreatePost
  BY <1>6 DEF CreatePost, MediaIdDefined, TypeOK, titlefolder
<1>7. CASE MakeFolder
  <2>1. titlefolder' = titlefolder /\ titlefolder \in Folder /\ at' = "banner"
    BY <1>7 DEF MakeFolder, TypeOK, titlefolder
  <2>2. ~trouble' => saved'[titlefolder].kind = "dir"
    BY <1>7, <2>1 DEF MakeFolder, TypeOK, Contents
  <2> QED
    BY <2>1, <2>2
<1>8. CASE ConvertBanner
  BY <1>8 DEF ConvertBanner, TypeOK, titlefolder
<1>9. CASE CopyBanner
  <2>1. titlefolder' = titlefolder /\ title \in Title
    BY <1>9 DEF CopyBanner, TypeOK, titlefolder
  <2>2. CASE trouble'
    BY <2>2
  <2>3. CASE ~trouble'
    <3>1. ~trouble /\ banner # NoTitle /\ Put("banner", banner)
      BY <1>9, <2>3 DEF CopyBanner, PutBanner
    <3>2. saved[titlefolder].kind = "dir" /\ saved[titlefolder] \in Contents
      BY <1>9, <2>1, <3>1, FolderAssumption DEF CopyBanner, TypeOK, titlefolder
    <3>3. saved'[titlefolder] = [saved[titlefolder] EXCEPT !.banner = banner]
      BY <2>1, <3>1, <3>2, PutBannerFacts DEF TypeOK
    <3> QED
      BY <1>9, <2>1, <3>1, <3>2, <3>3 DEF CopyBanner, Contents
  <2> QED
    BY <2>2, <2>3
<1>10. CASE RemoveBanner
  BY <1>10 DEF RemoveBanner, TypeOK, titlefolder
<1>11. CASE ConvertCover
  BY <1>11 DEF ConvertCover, TypeOK, titlefolder
<1>12. CASE AddOverlay
  BY <1>12 DEF AddOverlay, Passes, TypeOK, titlefolder
<1>13. CASE CopyCover
  <2>1. titlefolder' = titlefolder /\ title \in Title
    BY <1>13 DEF CopyCover, TypeOK, titlefolder
  <2>2. CASE trouble'
    BY <2>2
  <2>3. CASE ~trouble'
    <3>1. ~trouble /\ cover # NoCover /\ Put("cover", cover)
      BY <1>13, <2>3 DEF CopyCover
    <3>2. saved[titlefolder].kind = "dir" /\ saved[titlefolder] \in Contents
      BY <1>13, <2>1, <3>1, FolderAssumption DEF CopyCover, TypeOK, titlefolder
    <3>3. saved'[titlefolder] = [saved[titlefolder] EXCEPT !.cover = cover]
      BY <2>1, <3>1, <3>2, PutCoverFacts DEF TypeOK
    <3> QED
      BY <1>13, <2>1, <3>1, <3>2, <3>3 DEF CopyCover, Contents
  <2> QED
    BY <2>2, <2>3
<1>14. CASE RemoveCover
  BY <1>14 DEF RemoveCover, TypeOK, titlefolder
<1>15. CASE CopyClip("inclip", "outclip")
  <2>1. titlefolder' = titlefolder /\ title \in Title
    BY <1>15 DEF CopyClip, TypeOK, titlefolder
  <2>2. CASE trouble'
    BY <2>2
  <2>3. CASE ~trouble'
    <3>1. ~trouble /\ Put("inclip", "inclip")
      BY <1>15, <2>3 DEF CopyClip
    <3>2. saved[titlefolder].kind = "dir" /\ saved[titlefolder] \in Contents
      BY <1>15, <2>1, <3>1, FolderAssumption DEF CopyClip, TypeOK, titlefolder
    <3>3. saved'[titlefolder] =
            [saved[titlefolder] EXCEPT
               !.clips = saved[titlefolder].clips \cup {"inclip"}]
      BY <2>1, <3>1, <3>2, PutClipFacts
    <3> QED
      BY <1>15, <2>1, <3>1, <3>2, <3>3 DEF CopyClip, Contents
  <2> QED
    BY <2>2, <2>3
<1>16. CASE CopyClip("outclip", "record")
  <2>1. titlefolder' = titlefolder /\ title \in Title
    BY <1>16 DEF CopyClip, TypeOK, titlefolder
  <2>2. CASE trouble'
    BY <2>2
  <2>3. CASE ~trouble'
    <3>1. ~trouble /\ Put("outclip", "outclip")
      BY <1>16, <2>3 DEF CopyClip
    <3>2. saved[titlefolder].kind = "dir" /\ saved[titlefolder] \in Contents
      BY <1>16, <2>1, <3>1, FolderAssumption DEF CopyClip, TypeOK, titlefolder
    <3>3. saved'[titlefolder] =
            [saved[titlefolder] EXCEPT
               !.clips = saved[titlefolder].clips \cup {"outclip"}]
      BY <2>1, <3>1, <3>2, PutClipFacts
    <3> QED
      BY <1>16, <2>1, <3>1, <3>2, <3>3 DEF CopyClip, Contents
  <2> QED
    BY <2>2, <2>3
<1>17. CASE RecordVideo
  BY <1>17 DEF RecordVideo, Passes, TypeOK, titlefolder
<1>18. CASE StartUpload
  BY <1>18 DEF StartUpload, Ends, TypeOK, titlefolder
<1>19. CASE Killed
  BY <1>19 DEF Killed, Ends, TypeOK, titlefolder
<1>20. CASE AddCoverImage
  BY <1>20 DEF AddCoverImage, TypeOK, titlefolder
<1>21. CASE UNCHANGED vars
  BY <1>21 DEF TypeOK, titlefolder
<1> QED
  BY <1>1, <1>2, <1>3, <1>4, <1>5, <1>6, <1>7, <1>8, <1>9, <1>10, <1>11,
     <1>12, <1>13, <1>14, <1>15, <1>16, <1>17, <1>18, <1>19, <1>20, <1>21
     DEF Next, CopyClips

\* The first state has nothing published, nothing saved and no run.
LEMMA InitEstablishes == Init => IInv
<1> SUFFICES ASSUME Init PROVE IInv
  OBVIOUS
<1>1. Nothing \in Contents
  BY DEF Nothing, Contents
<1>2. [Nothing EXCEPT !.kind = "dir", !.clips = {"inclip", "outclip"}]
        \in Contents
  BY DEF Nothing, Contents
<1>3. saved \in [Folder -> Contents]
  BY <1>1, <1>2 DEF Init
<1>4. TypeOK
  <2>1. posts \in Seq(Post)
    BY DEF Init
  <2>2. /\ at \in Commands /\ image \in Image
        /\ cover \in Cover \cup {NoCover}
    BY DEF Init, Commands, Image
  <2>3. run \in 0..MaxRuns
    BY MaxRunsAssumption DEF Init
  <2> QED
    BY <1>3, <2>1, <2>2, <2>3 DEF Init, TypeOK
<1>5. SiteInv
  BY DEF Init, SiteInv
<1>6. PostedInv
  BY DEF Init, PostedInv, AfterPost, AfterMkdir, AfterCpBanner,
         AfterRmBanner, AfterCover, AfterCpCover, AfterRmCover, AfterInclip,
         AfterOutclip
<1>7. FolderInv
  BY DEF Init, FolderInv, AfterMkdir, AfterCpBanner, AfterRmBanner,
         AfterCpCover, AfterCover, AfterRmCover, AfterInclip, AfterOutclip
<1> QED
  BY <1>4, <1>5, <1>6, <1>7 DEF IInv

-----------------------------------------------------------------------------
(* The theorems *)

\* The inductive invariant holds for any set of titles, however they share
\* folders, and any number of runs.
THEOREM UploaderInvariant == Spec => []IInv
<1>1. IInv /\ [Next]_vars => IInv'
  BY TypePreserved, SitePreserved, PostedPreserved, FolderPreserved DEF IInv
<1> QED
  BY InitEstablishes, <1>1, PTL DEF Spec

\* The types of the script's, the directory's and the site's state.
THEOREM UploaderTypeCorrect == Spec => []TypeOK
<1>1. IInv => TypeOK
  BY DEF IInv
<1> QED
  BY UploaderInvariant, <1>1, PTL

\* However often the script is killed or fails, every post has a picture of
\* its own in the library and one run publishes at most once.
THEOREM PostsKeepOwnMedia == Spec => []PostsHaveOwnMedia
<1>1. IInv => PostsHaveOwnMedia
  BY DEF IInv, SiteInv, PostsHaveOwnMedia
<1> QED
  BY UploaderInvariant, <1>1, PTL

\* A run in which no command failed ends with the folder, the post and the
\* directory as they should be, whatever earlier runs have left.
THEOREM PreparedWithoutTrouble == Spec => []PreparedAtPrompt
<1>1. IInv => PreparedAtPrompt
  <2> SUFFICES ASSUME IInv, at = "prompt", ~trouble
               PROVE  PreparedAtPrompt
    BY DEF PreparedAtPrompt
  <2> USE DEF AfterMkdir, AfterCpBanner, AfterRmBanner, AfterCover,
              AfterCpCover, AfterRmCover, AfterInclip, AfterOutclip, AfterPost
  <2>1. saved[titlefolder] \in Contents
    BY FolderAssumption DEF IInv, TypeOK, titlefolder
  <2>2. saved[titlefolder].clips = {"inclip", "outclip"}
    BY <2>1 DEF IInv, FolderInv, Contents
  <2>3. banner = NoTitle /\ cover = NoCover
    BY DEF IInv, FolderInv
  <2> QED
    BY <2>2, <2>3 DEF IInv, FolderInv, PostedInv, PreparedAtPrompt
<1> QED
  BY UploaderInvariant, <1>1, PTL

=============================================================================
