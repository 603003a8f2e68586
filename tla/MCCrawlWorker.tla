--------------------------- MODULE MCCrawlWorker ----------------------------
(* A site of three pages, one of them linked under two spellings, with a    *)
(* cycle back to the home page and a page that only the deepest level has.  *)
EXTENDS CrawlWorker

CONSTANTS w1, w2

MCUrl   == {"home", "news", "news/", "item"}
MCPage  == {"home", "news", "item"}
MCCanon == [u \in MCUrl |-> IF u = "news/" THEN "news" ELSE u]
MCLinks == [u \in MCUrl |->
               CASE MCCanon[u] = "home" -> <<"news", "news/">>
                 [] MCCanon[u] = "news" -> <<"home", "item">>
                 [] MCCanon[u] = "item" -> <<"home">>]
MCSeeds == <<"home">>
=============================================================================
