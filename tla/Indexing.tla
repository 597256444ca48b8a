------------------------------ MODULE Indexing ------------------------------
(***************************************************************************)
(* The chunks of one resume on their way to vectors: EmbeddingService.embed *)
(* (app/services/embeddings.py) in batches, over either provider            *)
(* (app/llm/providers/openai.py, ollama.py). A vector is named by the chunk *)
(* whose text it stands for.                                                *)
(***************************************************************************)
EXTENDS Chunking, SequencesExt

CONSTANTS
    Providers,  \* of "openai" and "ollama"
    Dimension,  \* expected_dimension
    BatchSize   \* batch_size

ASSUME IndexingTypes ==
    /\ Providers \subseteq {"openai", "ollama"}
    /\ Dimension \in Positive /\ BatchSize \in Positive

VARIABLES
    provider,    \* the configured one
    embeddings,  \* the local variable of embed
    outcome      \* "none" yet, "embedded", or "failed"

service == <<provider, embeddings, outcome>>

-----------------------------------------------------------------------------
\* A turn of the loop: the numbers of the chunks of the next batch.
Batch ==
    LET start == Len(embeddings)
    IN  [i \in 1..Min({BatchSize, Len(drafts) - start}) |-> start + i]

Vector(chunk, dimension, finite) ==
    [of |-> chunk, dimension |-> dimension, finite |-> finite]

Items(batch) ==
    {[index |-> i, embedding |-> Vector(batch[i], Dimension, TRUE)] :
     i \in DOMAIN batch}

\* What the services answer: OpenAI numbers its vectors and may give them in any
\* order, Ollama gives them in the order of the texts.
Responses(batch) ==
    IF provider = "openai" THEN SetToSeqs(Items(batch))
    ELSE {[i \in DOMAIN batch |-> [index |-> i,
              embedding |-> Vector(batch[i], Dimension, TRUE)]]}

\* Instead of that, too few vectors, or one that is of no use.
BadResponses(batch) ==
    UNION {{Front(response),
            [response EXCEPT ![1].embedding.dimension = @ + 1],
            [response EXCEPT ![Len(batch)].embedding.finite = FALSE]} :
           response \in Responses(batch)}

\* Mutant of Returned: vectors as they come.
ReturnedAsTheyCome(response) == [i \in DOMAIN response |-> response[i].embedding]

\* The embed of the provider: that of OpenAI sorts.
Returned(response) ==
    LET at == CHOOSE f \in [DOMAIN response -> DOMAIN response] :
                  \A i, j \in DOMAIN response :
                      i < j => response[f[i]].index < response[f[j]].index
    IN  [i \in DOMAIN response |->
            response[IF provider = "openai" THEN at[i] ELSE i].embedding]

\* The checks of embed, with _validate_vector.
Accepted(vectors, batch) ==
    /\ Len(vectors) = Len(batch)
    /\ \A i \in DOMAIN vectors :
          vectors[i].dimension = Dimension /\ vectors[i].finite

-----------------------------------------------------------------------------
IndexingInit ==
    /\ Init
    /\ provider \in Providers
    /\ embeddings = <<>> /\ outcome = "none"

EmbedBatch ==
    /\ pc = "done" /\ outcome = "none" /\ Len(embeddings) < Len(drafts)
    /\ \E response \in Responses(Batch) \cup BadResponses(Batch) :
          LET vectors == Returned(response)
          IN  IF Accepted(vectors, Batch)
              THEN embeddings' = embeddings \o vectors /\ UNCHANGED outcome
              ELSE outcome' = "failed" /\ UNCHANGED embeddings
    /\ UNCHANGED <<vars, provider>>

\* No answer, an error status, or one that is not of the schema.
RequestRaises ==
    /\ pc = "done" /\ outcome = "none"
    /\ outcome' = "failed"
    /\ UNCHANGED <<vars, provider, embeddings>>

ReturnEmbeddings ==
    /\ pc = "done" /\ outcome = "none" /\ Len(embeddings) = Len(drafts)
    /\ outcome' = "embedded"
    /\ UNCHANGED <<vars, provider, embeddings>>

IndexingNext ==
    \/ Next /\ UNCHANGED service
    \/ EmbedBatch \/ RequestRaises \/ ReturnEmbeddings

IndexingSpec == IndexingInit /\ [][IndexingNext]_<<vars, service>>

-----------------------------------------------------------------------------
(* Properties *)

\* What is stored beside a chunk, by position, is the vector of its own text, in
\* whatever order the service answers and wherever the batches are cut, and of
\* the dimension of the column; otherwise the document fails as a whole.
VectorsMatchTexts ==
    outcome = "embedded" =>
        embeddings = [i \in DOMAIN drafts |-> Vector(i, Dimension, TRUE)]
=============================================================================
