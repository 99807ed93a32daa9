----------------------------- MODULE PageStore -----------------------------
(***************************************************************************)
(* What the buffer pool promises its callers: an array of pages that grows *)
(* at the end of each file and whose pages change only when a caller       *)
(* changes them.  Frames, eviction, write-back and flushing do not exist   *)
(* here; BufferPool implements this specification while the disk does not  *)
(* fail.                                                                   *)
(***************************************************************************)
EXTENDS Pages

VARIABLE pages    \* the content of each page, None before it exists

\* Every file starts as open_or_create_file makes it: one blank page.
Init ==
    pages = [p \in PageId |-> IF p.page_num = 0
                                 THEN create_blank_page(0, "Catalog") ELSE None]

\* A page is created once, right behind the last page of its file.
Create(p, kind) ==
    /\ pages[p] = None
    /\ \A q \in PageId : q.file_id = p.file_id /\ q.page_num < p.page_num
                            => pages[q] # None
    /\ pages' = [pages EXCEPT ![p] = create_blank_page(p.page_num, kind)]

Update(p, body) ==
    /\ pages[p] # None
    /\ pages' = [pages EXCEPT ![p].body = body]

Next == \E p \in PageId :
            \/ \E kind \in PageKind : Create(p, kind)
            \/ \E body \in Bodies : Update(p, body)

Spec == Init /\ [][Next]_pages
=============================================================================
